---- MODULE Spec2Model ----
\* Verification model of the OSRS clan bot: the file-backed repository layer
\* (base_repository.py), the user repository (user_repository.py, user.py,
\* participant_commands.py) and the competition lifecycle (competition.py,
\* competition_repository.py, base_manager.py, factory.py, bot.py).
\*
\* The specifications of the module: SpecRepo (files of one repository),
\* SpecFresh (a repository constructed on a path with no file), SpecUsers and
\* SpecAchievements (the users document and the tasks that operate on it),
\* SpecComp and SpecAdmin (the competitions document, the managers, the
\* monitor and the commands), SpecEntity, SpecUserEntity, SpecLeaderboard and
\* SpecRoundTrip (entities held by a caller), SpecLimiter and SpecBucket
\* (rate_limiter.py), SpecSanitize (validators.py), SpecLock (the tasks that
\* touch the files of one repository), SpecCeiling (creation against the
\* concurrent-competition limit), SpecCounter (the metadata counters of
\* competitions.json), SpecWrite (validation of a competitions document on
\* save), SpecRetention (pruning of backups), SpecLeave (leave_competition of a
\* registered member), SpecPipeline (decorators.py: the extensions and the
\* decorators of their commands), SpecCollection (leaderboard_repository.py:
\* the all-time leaderboards and the achievements), SpecFactory (factory.py:
\* the registry of manager classes), SpecWait and FairSpecWait
\* (wait_for_tokens), SpecAdaptive (adaptive_delay), SpecProfile
\* (get_public_profile), SpecShutdown (main.py: the tasks of the event loop at
\* shutdown), SpecRegistrations (status transitions next to add_participant
\* and remove_participant), SpecResults (join_competition and
\* leave_competition on a finished competition) and SpecRetry (a bucket of
\* the APIRateLimiter and its Retry-After handling).
EXTENDS Integers, Sequences, FiniteSets, TLC

VARIABLES
    fs,         \* SpecRepo: the two files of a repository, "file_path" and "temp_file"
    backups,    \* SpecRepo: the files of backup_dir, each [name, content, mtime]
    clock,      \* wall clock (time.time) in seconds
    wr,         \* the task inside _write_file, [pc, data, result]; in SpecFresh one per writer
    rd,         \* SpecRepo: outcome of the last load_data, [status, data]
    writes,     \* SpecRepo: number of save_data calls made so far
    users,      \* the "users" mapping of users.json, in insertion order
    ut,         \* SpecUsers: the coroutines running on the user repository
    calls,      \* SpecUsers: number of calls made so far
    serial,     \* SpecUsers: no call has yet been made while another was running
    hist,       \* SpecUsers: the calls that returned normally, per user
    comps,      \* the "competitions" mapping of competitions.json, in insertion order
    now,        \* SpecComp: wall clock (datetime.utcnow), in ticks
    mon,        \* SpecComp: the competition_monitor task of the bot
    ct,         \* SpecComp: the coroutines of commands and repository calls
    ccalls,     \* SpecComp: number of such calls made so far
    nextId,     \* SpecComp: number of competition ids generated so far
    ent,        \* an object held by a caller: an entity, a limiter, a bucket, the settings, a text, the command tree, the factory, the event loop
    last        \* the last method called on it, what it raised and returned

repoVars == <<fs, backups, clock, wr, rd, writes>>

userVars == <<users, ut, calls, serial, hist>>

compVars == <<comps, now, mon, ct, ccalls, nextId>>

entVars == <<ent, last>>

vars == <<repoVars, userVars, compVars, entVars>>

\* What the actions of each part leave alone.
notRepoVars == <<userVars, compVars, entVars>>

notUserVars == <<repoVars, compVars, entVars>>

notCompVars == <<repoVars, userVars, entVars>>

notEntVars == <<repoVars, userVars, compVars>>

-----------------------------------------------------------------------------
\* Bounds of the model.

\* Last second of the wall clock of SpecRepo.
MaxClock == 2

\* Number of save_data calls in a behaviour of SpecRepo.
MaxWrites == 3

\* Number of calls made on the user repository in a behaviour of SpecUsers.
MaxCalls == 3

\* Last tick of the wall clock of SpecComp.
MaxNow == 2

\* Number of commands and repository calls in a behaviour of SpecComp.
MaxCompCalls == 3

\* Number of add_competition_participation calls made on one User entity.
MaxParticipations == 8


\* Last instant of the clock of SpecRetry.
MaxRetryTime == 3

\* Number of calls on the bucket in a behaviour of SpecRetry.
MaxRetryCalls == 4


\* Number of commands in a behaviour of SpecResults.
MaxResultCalls == 3


\* Number of calls in a behaviour of SpecRegistrations.
MaxRegistrationCalls == 3


\* Last instant of the clock of SpecWait that is told apart from later ones.
MaxWaitClock == 4


\* Number of operations in a behaviour of SpecCounter.
MaxCounterCalls == 4

\* Number of commands in a behaviour of SpecCeiling, and its last instant.
MaxCeilingCalls == 2
MaxCeilingNow == 1

\* Number of tokens of the texts enumerated for sanitize_input.
MaxTokens == 3

\* Last second of the clock of SpecBucket.
MaxBucketTime == 2

\* Number of consume calls in a behaviour of SpecBucket.
MaxBucketCalls == 7

\* Last second of the clock of SpecLimiter.
MaxTime == 3

\* Number of is_allowed calls in a behaviour of SpecLimiter.
MaxLimiterCalls == 5

-----------------------------------------------------------------------------
\* ============ the user repository after construction ======================

\* interaction.user.id of the members that use the bot.
UserIds == {1, 2}

\* osrs_username = None
NoName == "None"

\* No entity (None).
NoUser == << >>

\* The elements of a list.
Range(seq) == {seq[i] : i \in DOMAIN seq}

\* The coroutines that run at the same time.
Slots == {1, 2}

\* No coroutine.
IdleCall ==
    [op |-> "none", id |-> 0, name |-> NoName, won |-> FALSE, ach |-> "none",
     pc |-> "idle", user |-> NoUser, data |-> << >>, result |-> "none"]

\* UserRepository after construction: no users.json yet, which reads as the
\* default document {"users": {}}; no call in progress.
UsersInit ==
    /\ users = << >>
    /\ ut = [s \in Slots |-> IdleCall]
    /\ calls = 0
    /\ serial = TRUE
    /\ hist = [adds |-> [id \in UserIds |-> 0], created |-> {}]

-----------------------------------------------------------------------------
\* ============ the competition side after construction =====================

\* None
NoObj == [repr |-> "None", v |-> << >>]

\* A value a coroutine holds: a plain dict (json.loads) or an entity
\* (Competition.from_dict, User(...)), with the same fields.
Obj(repr, v) == [repr |-> repr, v |-> v]

\* The coroutines of commands and repository calls that run next to the monitor.
CompSlots == {1}

\* No coroutine of a command or repository call.
IdleCompCall ==
    [op |-> "none", cid |-> 0, uid |-> 0, arg |-> "none", pc |-> "idle",
     obj |-> NoObj, data |-> << >>, result |-> "none"]

\* The competition_monitor loop between two passes. list and i are the
\* active_competitions of the manager being served and the position in it;
\* due and expired record what the pass has observed, alone that no other
\* coroutine has run during the pass.
IdleMonitor ==
    [pc |-> "idle", mgr |-> 0, list |-> << >>, i |-> 0, obj |-> NoObj,
     due |-> {}, expired |-> {}, alone |-> TRUE, result |-> "none"]

\* CompetitionRepository after construction: no competitions.json yet, which
\* reads as the default document {"competitions": {}}; the monitor waits.
CompInit ==
    /\ comps = << >>
    /\ now = 0
    /\ mon = IdleMonitor
    /\ ct = [s \in CompSlots |-> IdleCompCall]
    /\ ccalls = 0
    /\ nextId = 0

\* No entity is being exercised.
EntInit ==
    /\ ent = NoObj
    /\ last = [op |-> "none", raised |-> "none"]

-----------------------------------------------------------------------------
\* ===================== base_repository.py: files ==========================

\* Bodies a caller can hand to save_data: two documents that pass the structural
\* validator and one that parses but fails validation. The last_updated stamp
\* that _write_file sets is carried by the mtime of the file written.
DocBodies == {"docA", "docB", "docBad"}

Json(body) == [kind |-> "json", body |-> body]

\* Text that json.loads rejects.
Garbage == [kind |-> "garbage", body |-> "none"]

\* A file holding nothing but whitespace.
Blank == [kind |-> "blank", body |-> "none"]

\* A prefix of the serialisation of a document: not parseable.
Partial(data) == [kind |-> "partial", body |-> data.body]

File(c, m) == [exists |-> TRUE, content |-> c, mtime |-> m]

NoFile == [exists |-> FALSE, content |-> Blank, mtime |-> 0]

\* json.loads succeeds on the content.
Parses(c) == c.kind = "json"

\* _validate_data of the concrete repository, on a parsed document.
ValidateData(c) == c.body \in {"docA", "docB", "default"}

\* _get_default_structure
DefaultStructure == Json("default")

max_backups == 10

\* self.file_path
FilePath == "file_path"

\* In-place variant of the temporary path: the data is written over file_path.
TempFile_InPlace == "file_path"

\* temp_file = self.file_path.with_suffix('.tmp')
TempFile == "temp_file"

\* sorted(glob, key=st_mtime, reverse=True)[0]: any backup of maximal mtime
\* (the order among equal mtimes is the directory order).
LatestBackups(bs) == {b \in bs : \A o \in bs : o.mtime <= b.mtime}

\* A cleanup that keeps the max_backups least recently modified backups.
CleanupOldBackups_KeepsOldest(bs) ==
    IF Cardinality(bs) <= max_backups THEN {bs}
    ELSE {keep \in SUBSET bs :
            /\ Cardinality(keep) = max_backups
            /\ \A k \in keep, d \in bs \ keep : k.mtime <= d.mtime}

\* _cleanup_old_backups: the possible sets kept, the max_backups most recently
\* modified ones.
CleanupOldBackups(bs) ==
    IF Cardinality(bs) <= max_backups THEN {bs}
    ELSE {keep \in SUBSET bs :
            /\ Cardinality(keep) = max_backups
            /\ \A k \in keep, d \in bs \ keep : k.mtime >= d.mtime}

\* shutil.copy2(file_path, backup_file): content and mtime are copied; a backup
\* of the same second has the same name and is overwritten.
CreateBackup(bs) ==
    IF ~fs[FilePath].exists THEN {bs}
    ELSE CleanupOldBackups(
            {b \in bs : b.name # clock} \cup
            {[name |-> clock, content |-> fs[FilePath].content,
              mtime |-> fs[FilePath].mtime]})

RepoInit ==
    /\ fs = [f \in {"file_path", "temp_file"} |-> NoFile]
    /\ backups = {}
    /\ clock = 0
    /\ wr = [pc |-> "idle", data |-> Blank, result |-> "none"]
    /\ rd = [status |-> "none", data |-> Blank, restored |-> FALSE]
    /\ writes = 0

\* save_data -> _write_file, up to the metadata stamp: a document that fails
\* validation raises ValidationError before anything touches the disk.
SaveData(body) ==
    /\ wr.pc = "idle"
    /\ writes < MaxWrites
    /\ writes' = writes + 1
    /\ IF ValidateData(Json(body))
       THEN wr' = [pc |-> "backup", data |-> Json(body), result |-> "none"]
       ELSE wr' = [pc |-> "idle", data |-> Blank, result |-> "ValidationError"]
    /\ UNCHANGED <<fs, backups, clock, rd, notRepoVars>>

\* await self._create_backup()
WriteBackup ==
    /\ wr.pc = "backup"
    /\ backups' \in CreateBackup(backups)
    /\ wr' = [wr EXCEPT !.pc = "open"]
    /\ UNCHANGED <<fs, clock, rd, writes, notRepoVars>>

\* aiofiles.open(temp_file, 'w'): the file is created or truncated.
WriteOpenTemp ==
    /\ wr.pc = "open"
    /\ fs' = [fs EXCEPT ![TempFile] = File(Blank, clock)]
    /\ wr' = [wr EXCEPT !.pc = "write"]
    /\ UNCHANGED <<backups, clock, rd, writes, notRepoVars>>

\* file.write(json.dumps(data)): part of the text has reached the file.
WritePartial ==
    /\ wr.pc = "write"
    /\ fs' = [fs EXCEPT ![TempFile] = File(Partial(wr.data), clock)]
    /\ wr' = [wr EXCEPT !.pc = "flush"]
    /\ UNCHANGED <<backups, clock, rd, writes, notRepoVars>>

\* file.flush(): the whole text is in the file.
WriteFlush ==
    /\ wr.pc = "flush"
    /\ fs' = [fs EXCEPT ![TempFile] = File(wr.data, clock)]
    /\ wr' = [wr EXCEPT !.pc = "rename"]
    /\ UNCHANGED <<backups, clock, rd, writes, notRepoVars>>

\* temp_file.rename(self.file_path): atomic, the mtime moves with the file.
WriteRename ==
    /\ wr.pc = "rename"
    /\ fs' = [f \in {"file_path", "temp_file"} |->
                IF f = FilePath THEN fs[TempFile] ELSE NoFile]
    /\ wr' = [pc |-> "idle", data |-> Blank, result |-> "ok"]
    /\ UNCHANGED <<backups, clock, rd, writes, notRepoVars>>

\* The process dies inside _write_file: no handler runs, the files stay as they are.
Crash ==
    /\ wr.pc # "idle"
    /\ wr' = [pc |-> "idle", data |-> Blank, result |-> "crashed"]
    /\ UNCHANGED <<fs, backups, clock, rd, writes, notRepoVars>>

\* A restore that returns the backup's data and leaves file_path as it is.
RestoreFromBackup_NoCopy ==
    IF backups = {} THEN {<<Blank, fs[FilePath]>>}
    ELSE {IF Parses(b.content) /\ ValidateData(b.content)
          THEN <<b.content, fs[FilePath]>>
          ELSE <<Blank, fs[FilePath]>> : b \in LatestBackups(backups)}

\* _restore_from_backup: only the most recently modified backup is tried.
\* The result is <<data or Blank for None, file_path afterwards>>.
RestoreFromBackup ==
    IF backups = {} THEN {<<Blank, fs[FilePath]>>}
    ELSE {IF Parses(b.content) /\ ValidateData(b.content)
          THEN <<b.content, File(b.content, b.mtime)>>
          ELSE <<Blank, fs[FilePath]>> : b \in LatestBackups(backups)}

\* load_data -> _read_file.
LoadData ==
    /\ wr.pc = "idle"
    /\ LET f == fs[FilePath] IN
       IF ~f.exists \/ f.content.kind = "blank"
       THEN /\ rd' = [status |-> "ok", data |-> DefaultStructure, restored |-> FALSE]
            /\ fs' = fs
       ELSE IF Parses(f.content)
       THEN /\ rd' = [status |-> "ok", data |-> f.content, restored |-> FALSE]
            /\ fs' = fs
       ELSE \E r \in RestoreFromBackup :
            /\ fs' = [fs EXCEPT ![FilePath] = r[2]]
            /\ rd' = IF r[1] = Blank
                     THEN [status |-> "DatabaseError", data |-> Blank,
                           restored |-> FALSE]
                     ELSE [status |-> "ok", data |-> r[1], restored |-> TRUE]
    /\ UNCHANGED <<backups, clock, wr, writes, notRepoVars>>

\* Damage to the data file from outside the program.
CorruptFile ==
    /\ fs[FilePath].exists
    /\ fs[FilePath].content.kind = "json"
    /\ \E c \in {Garbage, Blank} :
          fs' = [fs EXCEPT ![FilePath] = File(c, clock)]
    /\ UNCHANGED <<backups, clock, wr, rd, writes, notRepoVars>>

TickClock ==
    /\ clock < MaxClock
    /\ clock' = clock + 1
    /\ UNCHANGED <<fs, backups, wr, rd, writes, notRepoVars>>

RepoNext ==
    \/ \E body \in DocBodies : SaveData(body)
    \/ WriteBackup
    \/ WriteOpenTemp
    \/ WritePartial
    \/ WriteFlush
    \/ WriteRename
    \/ Crash
    \/ LoadData
    \/ CorruptFile
    \/ TickClock

\* The state after construction of the repositories.
Init == RepoInit /\ UsersInit /\ CompInit /\ EntInit

SpecRepo == Init /\ [][RepoNext]_vars

-----------------------------------------------------------------------------
\* Properties of the repository files (SpecRepo).

LiveUnparsable ==
    /\ fs[FilePath].exists
    /\ fs[FilePath].content.kind \in {"garbage", "partial"}

ValidBackups == {b \in backups : Parses(b.content) /\ ValidateData(b.content)}

MostRecentValid == {b \in ValidBackups : \A o \in ValidBackups : o.mtime <= b.mtime}

\* C6 as stated: whenever the data file does not parse and some backup is valid,
\* a read returns the most recent valid backup (also when newer, invalid
\* backups exist) and file_path holds that content afterwards. Stated for
\* backup directories in which one backup is strictly the most recently
\* modified, so that no tie between modification times is involved.
CE_C6_MostRecentValidBackup ==
    [][(/\ LoadData /\ LiveUnparsable /\ ValidBackups # {}
        /\ Cardinality(LatestBackups(backups)) = 1) =>
        /\ rd'.status = "ok"
        /\ \E b \in MostRecentValid :
              /\ rd'.data = b.content
              /\ fs'[FilePath].content = b.content]_vars

\* C6 amended: whenever the data file does not parse and the most recently
\* modified backup is valid, a read returns that backup's content and file_path
\* holds it afterwards; when the most recently modified backup is invalid the
\* read fails and file_path is left as it was, whatever older backups exist.
Thm_C6_RestoreLatestBackup ==
    [][(LoadData /\ LiveUnparsable /\ backups # {}) =>
        /\ (LatestBackups(backups) \subseteq ValidBackups) =>
              /\ rd'.status = "ok"
              /\ \E b \in LatestBackups(backups) :
                    /\ rd'.data = b.content
                    /\ fs'[FilePath].content = b.content
        /\ (LatestBackups(backups) \cap ValidBackups = {}) =>
              /\ rd'.status = "DatabaseError"
              /\ fs'[FilePath] = fs[FilePath]]_vars

\* C6 witness: a read has restored the data file from the newest backup while
\* an older backup existed as well.
Wit_C6_Restored ==
    /\ rd.restored /\ rd.status = "ok"
    /\ fs[FilePath].content = rd.data
    /\ Cardinality(backups) >= 2

-----------------------------------------------------------------------------
\* ================ user.py, user_repository.py: the users document =========

\* Usernames a caller can pass: two spellings that differ in case only, one
\* padded with a blank, and one with a character that is not allowed.
Usernames == {"Zezima", "zezima", " Zezima", "Zez!ma"}

\* str.lower()
Lower(n) ==
    CASE n = "Zezima" -> "zezima"
      [] n = " Zezima" -> " zezima"
      [] n = "Zez!ma" -> "zez!ma"
      [] OTHER -> n

\* str.strip()
Strip(n) ==
    CASE n = " Zezima" -> "Zezima"
      [] n = " zezima" -> "zezima"
      [] OTHER -> n

\* The username rules of User.validate, applied to the stripped name: 1 to 12
\* characters out of letters, digits, blank, hyphen and underscore.
ValidUsername(n) == Strip(n) \in {"Zezima", "zezima"}

\* InputValidator.validate_osrs_username accepts the name (it returns Strip(n)).
ValidateOsrsUsername(n) == Strip(n) \in {"Zezima", "zezima"}

\* User(discord_id, osrs_username): a fresh entity; the name is stored as given.
User(id, name) ==
    [discord_id |-> id, osrs_username |-> name, total_competitions |-> 0,
     wins |-> 0, achievements |-> << >>]

\* User.validate
UserValidate(u) ==
    /\ u.discord_id > 0
    /\ u.osrs_username # NoName => ValidUsername(u.osrs_username)
    /\ u.total_competitions >= 0
    /\ u.wins >= 0
    /\ u.wins <= u.total_competitions

\* An add_competition_participation that counts the wins only.
UserAddCompetitionParticipation_WinsOnly(u, won) ==
    [u EXCEPT !.wins = IF won THEN @ + 1 ELSE @]

\* User.add_competition_participation(won)
UserAddCompetitionParticipation(u, won) ==
    [u EXCEPT !.total_competitions = @ + 1,
              !.wins = IF won THEN @ + 1 ELSE @]

\* An add_achievement that appends without looking.
UserAddAchievement_Always(u, a) ==
    [added |-> TRUE, user |-> [u EXCEPT !.achievements = Append(@, a)]]

\* User.add_achievement: whether the achievement was added, and the entity
\* afterwards.
UserAddAchievement(u, a) ==
    IF a \notin Range(u.achievements)
    THEN [added |-> TRUE, user |-> [u EXCEPT !.achievements = Append(@, a)]]
    ELSE [added |-> FALSE, user |-> u]

\* User.get_win_rate: 0.0 without competitions, else (wins / total) * 100,
\* kept as the exact fraction num / den.
GetWinRate(u) ==
    IF u.total_competitions = 0
    THEN [num |-> 0, den |-> 1]
    ELSE [num |-> u.wins * 100, den |-> u.total_competitions]

\* str(discord_id) in data["users"]
HasUser(doc, id) == \E i \in DOMAIN doc : doc[i].discord_id = id

\* data["users"][str(discord_id)]
GetUser(doc, id) == doc[CHOOSE i \in DOMAIN doc : doc[i].discord_id = id]

\* data["users"][str(discord_id)] = user.to_dict(): an existing key keeps its
\* place in the dict, a new key goes to the end.
PutUser(doc, u) ==
    IF HasUser(doc, u.discord_id)
    THEN [i \in DOMAIN doc |->
            IF doc[i].discord_id = u.discord_id THEN u ELSE doc[i]]
    ELSE Append(doc, u)

\* get_user_by_osrs_username: the position of the first entry, in dict order,
\* whose name equals the argument after lower(); 0 for None.
GetUserByOsrsUsername(doc, name) ==
    LET hits == {i \in DOMAIN doc :
                    /\ doc[i].osrs_username # NoName
                    /\ Lower(doc[i].osrs_username) = Lower(name)}
    IN IF hits = {} THEN 0 ELSE CHOOSE i \in hits : \A j \in hits : i <= j

\* UserRepository._validate_data: every entry builds a valid User.
ValidateUsers(doc) == \A i \in DOMAIN doc : UserValidate(doc[i])

\* The first await of each operation.
FirstPc(op) ==
    CASE op = "create_user" -> "cu_get"
      [] op = "link_osrs_account" -> "lk_find"
      [] op = "unlink_osrs_account" -> "ul_get"
      [] op = "add_competition_participation" -> "ap_get"
      [] op = "link_account" -> "la_get"
      [] op = "add_user_achievement" -> "ac_get"

\* The arguments each operation is called with.
CallArgs ==
    [op : {"create_user"}, id : UserIds, name : Usernames \cup {NoName},
     won : {FALSE}, ach : {"none"}]
    \cup [op : {"link_osrs_account", "link_account"}, id : UserIds,
          name : Usernames, won : {FALSE}, ach : {"none"}]
    \cup [op : {"unlink_osrs_account"}, id : UserIds, name : {NoName},
          won : {FALSE}, ach : {"none"}]
    \cup [op : {"add_competition_participation"}, id : UserIds,
          name : {NoName}, won : BOOLEAN, ach : {"none"}]

\* The achievement identifiers awarded.
Achievements == {"first_win", "veteran"}

\* The arguments of the add_user_achievement calls.
AchievementCallArgs ==
    [op : {"add_user_achievement"}, id : UserIds, name : {NoName},
     won : {FALSE}, ach : Achievements]

\* The coroutine of one call: its arguments, its position, the User entity and
\* the document it holds in local variables, and its outcome.
NewCall(a) ==
    [op |-> a.op, id |-> a.id, name |-> a.name, won |-> a.won, ach |-> a.ach,
     pc |-> FirstPc(a.op), user |-> NoUser, data |-> << >>, result |-> "none"]

\* The call returns or raises: its arguments and locals are gone.
Finish(t, r) ==
    [ut EXCEPT ![t] = [IdleCall EXCEPT !.op = ut[t].op, !.pc = "done",
                                       !.result = r]]

Running == {t \in Slots : ut[t].pc \notin {"idle", "done"}}


\* The record of the calls that returned normally, after one more has.
Returned(op, id) ==
    CASE op = "add_competition_participation" ->
            [hist EXCEPT !.adds[id] = @ + 1]
      [] op = "create_user" -> [hist EXCEPT !.created = @ \cup {id}]
      [] OTHER -> hist

\* A member or a caller starts an operation.
Call(a) ==
    /\ calls < MaxCalls
    /\ Running # Slots
    /\ LET s == CHOOSE f \in Slots \ Running : \A g \in Slots \ Running : f <= g
       IN ut' = [ut EXCEPT ![s] = NewCall(a)]
    /\ calls' = calls + 1
    /\ serial' = (serial /\ Running = {})
    /\ UNCHANGED <<users, hist, notUserVars>>

\* link_account (participant_commands.py): validate the name, look the member
\* up, then link_osrs_account for a known member and create_user otherwise,
\* both with the validated (stripped) name.
LinkAccount(t) ==
    /\ ut[t].pc = "la_get"
    /\ ut' = IF ~ValidateOsrsUsername(ut[t].name)
             THEN Finish(t, "ValidationError")
             ELSE [ut EXCEPT ![t].name = Strip(ut[t].name),
                             ![t].pc = IF HasUser(users, ut[t].id)
                                       THEN "lk_find" ELSE "cu_get"]
    /\ UNCHANGED <<users, calls, serial, hist, notUserVars>>

\* A create_user that does not look the discord id up.
CreateUserCheck_NoLookup(t) ==
    /\ ut[t].pc = "cu_get"
    /\ ut' = IF ~UserValidate(User(ut[t].id, ut[t].name))
             THEN Finish(t, "ValidationError")
             ELSE [ut EXCEPT ![t].pc = "cu_load",
                             ![t].user = User(ut[t].id, ut[t].name)]
    /\ UNCHANGED <<users, calls, serial, hist, notUserVars>>

\* create_user: get_user_by_discord_id, then User(...), whose __post_init__
\* validates. The username is not looked up.
CreateUserCheck(t) ==
    /\ ut[t].pc = "cu_get"
    /\ ut' = IF HasUser(users, ut[t].id) THEN Finish(t, "UserError")
             ELSE IF ~UserValidate(User(ut[t].id, ut[t].name))
             THEN Finish(t, "ValidationError")
             ELSE [ut EXCEPT ![t].pc = "cu_load",
                             ![t].user = User(ut[t].id, ut[t].name)]
    /\ UNCHANGED <<users, calls, serial, hist, notUserVars>>

\* create_user: data = await self.load_data(); data["users"][id] = user.to_dict()
CreateUserLoad(t) ==
    /\ ut[t].pc = "cu_load"
    /\ ut' = [ut EXCEPT ![t].pc = "save", ![t].data = PutUser(users, ut[t].user)]
    /\ UNCHANGED <<users, calls, serial, hist, notUserVars>>

\* link_osrs_account: get_user_by_osrs_username(osrs_username) and the test
\* existing_user.discord_id != discord_id.
LinkOsrsAccountFind(t) ==
    /\ ut[t].pc = "lk_find"
    /\ LET i == GetUserByOsrsUsername(users, ut[t].name) IN
       ut' = IF i # 0 /\ users[i].discord_id # ut[t].id
             THEN Finish(t, "UserError")
             ELSE [ut EXCEPT ![t].pc = "lk_get"]
    /\ UNCHANGED <<users, calls, serial, hist, notUserVars>>

\* link_osrs_account: get_user_by_discord_id, then user.link_osrs_account, which
\* stores the stripped name and validates.
LinkOsrsAccountGet(t) ==
    /\ ut[t].pc = "lk_get"
    /\ ut' = IF ~HasUser(users, ut[t].id) THEN Finish(t, "UserNotFoundError")
             ELSE LET u == [GetUser(users, ut[t].id) EXCEPT
                               !.osrs_username = Strip(ut[t].name)]
                  IN IF ~UserValidate(u) THEN Finish(t, "ValidationError")
                     ELSE [ut EXCEPT ![t].pc = "up_load", ![t].user = u]
    /\ UNCHANGED <<users, calls, serial, hist, notUserVars>>

\* unlink_osrs_account: get_user_by_discord_id, then user.unlink_osrs_account.
UnlinkOsrsAccountGet(t) ==
    /\ ut[t].pc = "ul_get"
    /\ ut' = IF ~HasUser(users, ut[t].id) THEN Finish(t, "UserNotFoundError")
             ELSE [ut EXCEPT ![t].pc = "up_load",
                             ![t].user = [GetUser(users, ut[t].id) EXCEPT
                                             !.osrs_username = NoName]]
    /\ UNCHANGED <<users, calls, serial, hist, notUserVars>>

\* add_competition_participation: get_user_by_discord_id, then
\* user.add_competition_participation(won).
AddCompetitionParticipationGet(t) ==
    /\ ut[t].pc = "ap_get"
    /\ ut' = IF ~HasUser(users, ut[t].id) THEN Finish(t, "UserNotFoundError")
             ELSE LET u == GetUser(users, ut[t].id) IN
                  [ut EXCEPT ![t].pc = "up_load",
                             ![t].user =
                                UserAddCompetitionParticipation(u, ut[t].won)]
    /\ UNCHANGED <<users, calls, serial, hist, notUserVars>>

\* add_user_achievement: get_user_by_discord_id, then user.add_achievement;
\* update_user follows only when the achievement was added, otherwise the call
\* returns False.
AddUserAchievementGet(t) ==
    /\ ut[t].pc = "ac_get"
    /\ ut' = IF ~HasUser(users, ut[t].id) THEN Finish(t, "UserNotFoundError")
             ELSE LET r == UserAddAchievement(GetUser(users, ut[t].id), ut[t].ach)
                  IN IF r.added
                     THEN [ut EXCEPT ![t].pc = "up_load", ![t].user = r.user]
                     ELSE Finish(t, "False")
    /\ UNCHANGED <<users, calls, serial, hist, notUserVars>>

\* update_user: data = await self.load_data(); the entry of the user is replaced
\* by the entity the caller holds.
UpdateUserLoad(t) ==
    /\ ut[t].pc = "up_load"
    /\ ut' = IF ~HasUser(users, ut[t].id) THEN Finish(t, "UserNotFoundError")
             ELSE [ut EXCEPT ![t].pc = "save",
                             ![t].data = PutUser(users, ut[t].user)]
    /\ UNCHANGED <<users, calls, serial, hist, notUserVars>>

\* await self.save_data(data): the document the call holds replaces the file.
\* add_user_achievement then returns True, the other operations their user.
UserSaveData(t) ==
    /\ ut[t].pc = "save"
    /\ IF ValidateUsers(ut[t].data)
       THEN /\ users' = ut[t].data
            /\ ut' = Finish(t, IF ut[t].op = "add_user_achievement"
                                THEN "True" ELSE "ok")
            /\ hist' = Returned(ut[t].op, ut[t].id)
       ELSE /\ users' = users
            /\ ut' = Finish(t, "ValidationError")
            /\ hist' = hist
    /\ UNCHANGED <<calls, serial, notUserVars>>

UsersNext ==
    \/ \E a \in CallArgs : Call(a)
    \/ \E t \in Slots : LinkAccount(t)
    \/ \E t \in Slots : CreateUserCheck(t)
    \/ \E t \in Slots : CreateUserLoad(t)
    \/ \E t \in Slots : LinkOsrsAccountFind(t)
    \/ \E t \in Slots : LinkOsrsAccountGet(t)
    \/ \E t \in Slots : UnlinkOsrsAccountGet(t)
    \/ \E t \in Slots : AddCompetitionParticipationGet(t)
    \/ \E t \in Slots : UpdateUserLoad(t)
    \/ \E t \in Slots : UserSaveData(t)

SpecUsers == Init /\ [][UsersNext]_vars

-----------------------------------------------------------------------------
\* Properties of the users document (SpecUsers).

AllDone == calls > 0 /\ Running = {}

\* What operations run one after the other leave behind: every successful
\* add_competition_participation is counted, and every user created is there.
NoLostUpdate ==
    /\ \A id \in UserIds :
          hist.adds[id] > 0 =>
             /\ HasUser(users, id)
             /\ GetUser(users, id).total_competitions = hist.adds[id]
    /\ \A id \in hist.created : HasUser(users, id)

\* C4 as stated: whatever the interleaving of the calls made on one repository
\* instance, once they have all returned the document is the one that the same
\* calls leave when run one after the other: no update is lost.
CE_C4_NoLostUpdate == AllDone => NoLostUpdate

\* Calls that do not overlap do leave that document.
SerialNoLostUpdate == (AllDone /\ serial) => NoLostUpdate

\* The name is linked to a user other than id / to the user id itself,
\* compared case-insensitively.
LinkedToOther(id, name) ==
    \E i \in DOMAIN users :
        /\ users[i].discord_id # id
        /\ users[i].osrs_username # NoName
        /\ Lower(users[i].osrs_username) = Lower(name)

LinkedToSelf(id, name) ==
    \E i \in DOMAIN users :
        /\ users[i].discord_id = id
        /\ users[i].osrs_username # NoName
        /\ Lower(users[i].osrs_username) = Lower(name)

\* C9 as stated: in every document that calls of create_user,
\* link_osrs_account, unlink_osrs_account and link_account made one after the
\* other leave behind, no two users have usernames that are equal when compared
\* case-insensitively.
CE_C9_UsernameUnique ==
    serial =>
        \A i, j \in DOMAIN users :
            (i # j /\ users[i].osrs_username # NoName
                   /\ users[j].osrs_username # NoName) =>
                Lower(users[i].osrs_username) # Lower(users[j].osrs_username)

\* C10 as stated, for calls made one after the other: at its duplicate check,
\* link_osrs_account raises a user error and leaves the document as it is when
\* the username is linked to a different user (and not to the caller), and it
\* does not raise it when the username is already linked to the caller.
CE_C10_LinkDuplicate ==
    [][\A t \in Slots :
        (serial /\ ut[t].op = "link_osrs_account" /\ LinkOsrsAccountFind(t)) =>
            /\ (LinkedToOther(ut[t].id, ut[t].name)
                  /\ ~LinkedToSelf(ut[t].id, ut[t].name)) =>
                    (ut'[t].result = "UserError" /\ users' = users)
            /\ LinkedToSelf(ut[t].id, ut[t].name) =>
                    ut'[t].result # "UserError"]_vars

\* The same, in the documents in which usernames are unique.
LinkDuplicateWhenUnique ==
    [][\A t \in Slots :
        (ut[t].op = "link_osrs_account" /\ LinkOsrsAccountFind(t)
           /\ ~(LinkedToOther(ut[t].id, ut[t].name)
                  /\ LinkedToSelf(ut[t].id, ut[t].name))) =>
            /\ LinkedToOther(ut[t].id, ut[t].name) =>
                    (ut'[t].result = "UserError" /\ users' = users)
            /\ LinkedToSelf(ut[t].id, ut[t].name) =>
                    ut'[t].result # "UserError"]_vars

\* The records of the document with the discord id.
RecordsOf(doc, id) == {i \in DOMAIN doc : doc[i].discord_id = id}

\* C11: a create_user whose discord id already has a record raises a user
\* error at its lookup and leaves the whole document as it is; a create_user
\* that writes leaves exactly one record of its discord id, the user it built,
\* and, when the calls are made one after the other, that record is the one
\* record added to the document it found.
Thm_C11_CreateUser ==
    [][\A t \in Slots : ut[t].op = "create_user" =>
          /\ (CreateUserCheck(t) /\ HasUser(users, ut[t].id))
             => (ut'[t].result = "UserError" /\ users' = users)
          /\ (CreateUserCheck(t) /\ ~HasUser(users, ut[t].id))
             => ut'[t].result # "UserError"
          /\ UserSaveData(t)
             => /\ ut'[t].result = "ok"
                /\ Cardinality(RecordsOf(users', ut[t].id)) = 1
                /\ GetUser(users', ut[t].id) = User(ut[t].id, ut[t].name)
                /\ serial => users' = Append(users, User(ut[t].id, ut[t].name))
      ]_vars

\* C11: a create_user has been refused with a user error after another one
\* had created the user.
Wit_C11_DuplicateRefused ==
    /\ hist.created # {}
    /\ \E t \in Slots : /\ ut[t].op = "create_user"
                        /\ ut[t].pc = "done"
                        /\ ut[t].result = "UserError"

-----------------------------------------------------------------------------
\* ====== add_user_achievement on the users document ========================

AchievementsNext ==
    \/ \E a \in AchievementCallArgs : Call(a)
    \/ \E t \in Slots : AddUserAchievementGet(t)
    \/ \E t \in Slots : UpdateUserLoad(t)
    \/ \E t \in Slots : UserSaveData(t)

\* A users document with one or two users on record, none with achievements.
InitAchievements ==
    /\ RepoInit
    /\ users \in {<<User(1, "Zezima")>>, <<User(1, "Zezima"), User(2, NoName)>>}
    /\ ut = [s \in Slots |-> IdleCall]
    /\ calls = 0
    /\ serial = TRUE
    /\ hist = [adds |-> [id \in UserIds |-> 0], created |-> {}]
    /\ CompInit
    /\ EntInit

SpecAchievements == InitAchievements /\ [][AchievementsNext]_vars

\* C13: an add_user_achievement that finds the achievement in the stored list
\* of the user returns False and leaves the document as it is; one that does
\* not find it goes on to write, and, for calls made one after the other, its
\* write returns True and appends the achievement to the stored list of that
\* user, changing nothing else. No stored list holds an achievement twice.
Thm_C13_AchievementOnce ==
    /\ [](\A i \in DOMAIN users :
            Cardinality(Range(users[i].achievements))
               = Len(users[i].achievements))
    /\ [][\A t \in Slots : ut[t].op = "add_user_achievement" =>
            /\ (AddUserAchievementGet(t) /\ HasUser(users, ut[t].id)) =>
                  IF ut[t].ach \in Range(GetUser(users, ut[t].id).achievements)
                  THEN ut'[t].result = "False" /\ users' = users
                  ELSE ut'[t].pc = "up_load"
            /\ (UserSaveData(t) /\ serial) =>
                  /\ ut'[t].result = "True"
                  /\ users' = PutUser(users,
                        [GetUser(users, ut[t].id) EXCEPT
                            !.achievements = Append(@, ut[t].ach)])]_vars

\* C13: of two calls made one after the other the second has returned False,
\* the achievement being in the stored list since the first.
Wit_C13_SecondRefused ==
    /\ serial
    /\ calls = 2
    /\ \E t \in Slots : /\ ut[t].op = "add_user_achievement"
                        /\ ut[t].pc = "done"
                        /\ ut[t].result = "False"
    /\ \E i \in DOMAIN users : Len(users[i].achievements) = 1

-----------------------------------------------------------------------------
\* ====== a User entity under add_competition_participation =================

\* user.add_competition_participation(won)
UserEntAddParticipation(won) ==
    /\ ent.repr = "User"
    /\ ent.v.total_competitions < MaxParticipations
    /\ ent' = Obj("User", UserAddCompetitionParticipation(ent.v, won))
    /\ last' = [op |-> "add_competition_participation", raised |-> "none"]
    /\ UNCHANGED notEntVars

\* user.get_win_rate()
UserEntGetWinRate ==
    /\ ent.repr = "User"
    /\ last' = [op |-> "get_win_rate", raised |-> "none",
                result |-> GetWinRate(ent.v)]
    /\ UNCHANGED <<ent, notEntVars>>

UserEntityNext ==
    \/ \E won \in BOOLEAN : UserEntAddParticipation(won)
    \/ UserEntGetWinRate

\* A fresh user, with or without an OSRS account.
InitUserEntity ==
    /\ RepoInit
    /\ UsersInit
    /\ CompInit
    /\ ent \in {Obj("User", User(id, name)) :
                 id \in UserIds, name \in {NoName, "Zezima"}}
    /\ last = [op |-> "none", raised |-> "none"]

SpecUserEntity == InitUserEntity /\ [][UserEntityNext]_vars

\* C12: from a fresh user, through any sequence of
\* add_competition_participation calls, wins <= total_competitions; each call
\* adds exactly 1 to total_competitions and adds 1 to wins when won and 0
\* otherwise; get_win_rate returns 0.0 when total_competitions is 0.
Thm_C12_WinsWithinTotal ==
    /\ [](ent.repr = "User" => ent.v.wins <= ent.v.total_competitions)
    /\ [][\A won \in BOOLEAN : UserEntAddParticipation(won) =>
            /\ ent'.v.total_competitions = ent.v.total_competitions + 1
            /\ ent'.v.wins = ent.v.wins + (IF won THEN 1 ELSE 0)]_vars
    /\ []((last.op = "get_win_rate" /\ ent.v.total_competitions = 0)
            => last.result.num = 0)

\* C12: get_win_rate has been called on a user with won and lost
\* competitions.
Wit_C12_WonAndLost ==
    /\ ent.repr = "User"
    /\ last.op = "get_win_rate"
    /\ ent.v.wins >= 1
    /\ ent.v.total_competitions - ent.v.wins >= 2

-----------------------------------------------------------------------------
\* ============ leaderboard.py: a Leaderboard and its entries ===============

\* The users scored and the scores they get.
LbUserIds == {1, 2, 3}

LbScores == {7, 10}

\* LeaderboardEntry.validate: user id and rank are positive integers.
LeaderboardEntryValidate(e) == e.user_id > 0 /\ e.rank > 0

\* sorted(entries, key=score, reverse=True): descending, entries of equal
\* score in the order they had.
RECURSIVE SortedByScore(_)
SortedByScore(es) ==
    IF es = << >> THEN << >>
    ELSE LET init == SortedByScore(SubSeq(es, 1, Len(es) - 1))
             e == es[Len(es)]
             k == Cardinality({i \in DOMAIN init : init[i].score >= e.score})
         IN SubSeq(init, 1, k) \o <<e>> \o SubSeq(init, k + 1, Len(init))

\* current_rank when the loop of recalculate_ranks is at position i of the
\* sorted list: i where the score differs from the one before, else unchanged.
RECURSIVE CurrentRank(_, _)
CurrentRank(sorted, i) ==
    IF i = 1 THEN 1
    ELSE IF sorted[i - 1].score # sorted[i].score THEN i
    ELSE CurrentRank(sorted, i - 1)

\* Leaderboard.recalculate_ranks: the entries sorted and ranked.
RecalculateRanks(es) ==
    LET sorted == SortedByScore(es) IN
    [i \in DOMAIN sorted |-> [sorted[i] EXCEPT !.rank = CurrentRank(sorted, i)]]

\* Leaderboard.add_or_update_entry: the exception raised, if any, and the
\* entries afterwards. The first entry of the user gets the score; for a user
\* without entry LeaderboardEntry(user_id, rank=0, score) is constructed,
\* which validates itself.
AddOrUpdateEntry(es, uid, score) ==
    LET hits == {i \in DOMAIN es : es[i].user_id = uid} IN
    IF hits # {}
    THEN LET f == CHOOSE i \in hits : \A j \in hits : i <= j IN
         [raised |-> "none",
          entries |-> RecalculateRanks([es EXCEPT ![f].score = score])]
    ELSE LET new == [user_id |-> uid, rank |-> 0, score |-> score] IN
         IF ~LeaderboardEntryValidate(new)
         THEN [raised |-> "ValidationError", entries |-> es]
         ELSE [raised |-> "none", entries |-> RecalculateRanks(Append(es, new))]

\* leaderboard.add_or_update_entry(user_id, score)
LbAddOrUpdateEntry(uid, score) ==
    /\ ent.repr = "Leaderboard"
    /\ LET r == AddOrUpdateEntry(ent.v.entries, uid, score) IN
       /\ ent' = Obj("Leaderboard", [ent.v EXCEPT !.entries = r.entries])
       /\ last' = [op |-> "add_or_update_entry", raised |-> r.raised]
    /\ UNCHANGED notEntVars

\* leaderboard.remove_entry(user_id)
LbRemoveEntry(uid) ==
    /\ ent.repr = "Leaderboard"
    /\ \E i \in DOMAIN ent.v.entries : ent.v.entries[i].user_id = uid
    /\ ent' = Obj("Leaderboard",
                  [ent.v EXCEPT !.entries = RecalculateRanks(
                      SelectSeq(@, LAMBDA e : e.user_id # uid))])
    /\ last' = [op |-> "remove_entry", raised |-> "none"]
    /\ UNCHANGED notEntVars

LeaderboardNext ==
    \/ \E uid \in LbUserIds, score \in LbScores : LbAddOrUpdateEntry(uid, score)
    \/ \E uid \in LbUserIds : LbRemoveEntry(uid)

\* The entries of a stored leaderboard: one entry for each user of a set,
\* sorted and ranked.
StoredEntries ==
    LET Entries == [user_id : LbUserIds, rank : {1}, score : LbScores]
        Lists == UNION {[1..n -> Entries] : n \in 0..Cardinality(LbUserIds)}
    IN {RecalculateRanks(es) :
          es \in {l \in Lists : \A i, j \in DOMAIN l :
                                  l[i].user_id = l[j].user_id => i = j}}

\* A leaderboard that is new (no entries) or built by from_dict from a stored
\* one.
InitLeaderboard ==
    /\ RepoInit
    /\ UsersInit
    /\ CompInit
    /\ ent \in {Obj("Leaderboard", [entries |-> es]) : es \in StoredEntries}
    /\ last = [op |-> "none", raised |-> "none"]

SpecLeaderboard == InitLeaderboard /\ [][LeaderboardNext]_vars

\* Every entry's rank is 1 plus the number of entries with a strictly higher
\* score.
RankedWithTies(es) ==
    \A i \in DOMAIN es :
        es[i].rank
          = 1 + Cardinality({j \in DOMAIN es : es[j].score > es[i].score})

\* C14: after add_or_update_entry(user_id, score) the leaderboard has the
\* entry of the user with that score, and every entry's rank is 1 plus the
\* number of entries with a strictly higher score.
CE_C14_RankedAfterInsert ==
    [][\A uid \in LbUserIds, score \in LbScores :
          LbAddOrUpdateEntry(uid, score) =>
             /\ last'.raised = "none"
             /\ \E i \in DOMAIN ent'.v.entries :
                   /\ ent'.v.entries[i].user_id = uid
                   /\ ent'.v.entries[i].score = score
             /\ RankedWithTies(ent'.v.entries)]_vars

\* The ranks are right in every leaderboard, and add_or_update_entry on a user
\* that has an entry gives the entry the score.
RankedAfterUpdate ==
    /\ [](ent.repr = "Leaderboard" => RankedWithTies(ent.v.entries))
    /\ [][\A uid \in LbUserIds, score \in LbScores :
            (/\ LbAddOrUpdateEntry(uid, score)
             /\ \E i \in DOMAIN ent.v.entries : ent.v.entries[i].user_id = uid)
            => /\ last'.raised = "none"
               /\ \E i \in DOMAIN ent'.v.entries :
                     /\ ent'.v.entries[i].user_id = uid
                     /\ ent'.v.entries[i].score = score]_vars

-----------------------------------------------------------------------------
\* ============ to_dict / from_dict of the entities =========================

\* An Optional value: None is the empty set, a value x is {x}.
None == {}

Some(x) == {x}

\* A member of an Enum class, as opposed to its value, a string.
Enum(cls, value) == [enum |-> cls, value |-> value]

\* The values of CompetitionType, LeaderboardType and PrivacyLevel used.
CompetitionTypes ==
    {"skill_competition", "boss_competition", "trivia", "race", "speedrun"}

LeaderboardTypes == {"all_time_wins", "monthly_wins", "win_rate"}

PrivacyLevels == {"public", "private"}

\* A dict of results or statistics, by its keys.
Dicts == {{}, {"score"}}

\* ParticipantData.to_dict: final_result.copy() if final_result else None;
\* None and the empty dict are both falsy.
ParticipantDataToDict(pd) ==
    [user_id |-> pd.user_id,
     starting_stats |-> pd.starting_stats,
     current_progress |-> pd.current_progress,
     final_result |-> IF pd.final_result = None \/ pd.final_result = Some({})
                      THEN None ELSE pd.final_result,
     notes |-> pd.notes]

\* ParticipantData.from_dict
ParticipantDataFromDict(d) ==
    [user_id |-> d.user_id,
     starting_stats |-> d.starting_stats,
     current_progress |-> d.current_progress,
     final_result |-> d.final_result,
     notes |-> d.notes]

\* Competition.to_dict: the enums by their values, the participants by
\* their to_dict.
CompetitionToDict(c) ==
    [id |-> c.id, type |-> c.type.value, status |-> c.status.value,
     max_participants |-> c.max_participants,
     participants |-> [i \in DOMAIN c.participants |->
                          ParticipantDataToDict(c.participants[i])],
     winners |-> c.winners,
     cancellation_reason |-> c.cancellation_reason]

\* Competition.from_dict and __post_init__: the strings to enums, the
\* participant dicts to ParticipantData.
CompetitionFromDict(d) ==
    [id |-> d.id, type |-> Enum("CompetitionType", d.type),
     status |-> Enum("CompetitionStatus", d.status),
     max_participants |-> d.max_participants,
     participants |-> [i \in DOMAIN d.participants |->
                          ParticipantDataFromDict(d.participants[i])],
     winners |-> d.winners,
     cancellation_reason |-> d.cancellation_reason]

\* User.to_dict, with UserPreferences.to_dict
UserToDict(u) ==
    [discord_id |-> u.discord_id, osrs_username |-> u.osrs_username,
     wise_old_man_id |-> u.wise_old_man_id,
     total_competitions |-> u.total_competitions, wins |-> u.wins,
     preferences |-> [notifications |-> u.preferences.notifications,
                      privacy_level |-> u.preferences.privacy_level.value],
     achievements |-> u.achievements,
     display_name |-> u.display_name]

\* User.from_dict, with UserPreferences.from_dict
UserFromDict(d) ==
    [discord_id |-> d.discord_id, osrs_username |-> d.osrs_username,
     wise_old_man_id |-> d.wise_old_man_id,
     total_competitions |-> d.total_competitions, wins |-> d.wins,
     preferences |-> [notifications |-> d.preferences.notifications,
                      privacy_level |-> Enum("PrivacyLevel",
                                             d.preferences.privacy_level)],
     achievements |-> d.achievements,
     display_name |-> d.display_name]

\* Leaderboard.to_dict, with LeaderboardEntry.to_dict
LeaderboardToDict(l) ==
    [leaderboard_type |-> l.leaderboard_type.value,
     entries |-> [i \in DOMAIN l.entries |->
                    [user_id |-> l.entries[i].user_id,
                     rank |-> l.entries[i].rank,
                     score |-> l.entries[i].score,
                     display_name |-> l.entries[i].display_name]],
     period_start |-> l.period_start, period_end |-> l.period_end]

\* Leaderboard.from_dict, with LeaderboardEntry.from_dict
LeaderboardFromDict(d) ==
    [leaderboard_type |-> Enum("LeaderboardType", d.leaderboard_type),
     entries |-> [i \in DOMAIN d.entries |->
                    [user_id |-> d.entries[i].user_id,
                     rank |-> d.entries[i].rank,
                     score |-> d.entries[i].score,
                     display_name |-> d.entries[i].display_name]],
     period_start |-> d.period_start, period_end |-> d.period_end]

\* to_dict / from_dict of the class.
ToDict(cls, e) ==
    CASE cls = "Competition" -> CompetitionToDict(e)
      [] cls = "User" -> UserToDict(e)
      [] cls = "Leaderboard" -> LeaderboardToDict(e)

FromDict(cls, d) ==
    CASE cls = "Competition" -> CompetitionFromDict(d)
      [] cls = "User" -> UserFromDict(d)
      [] cls = "Leaderboard" -> LeaderboardFromDict(d)

-----------------------------------------------------------------------------
\* ============ competition.py: the Competition entity ======================

\* Discord ids of the members that use the bot or are handed to the repository.
Members == {1, 2, 3}

\* The users document of SpecComp: member 1 has linked an OSRS account, member 2
\* has a record without one, member 3 has no record.
RegisteredUsers ==
    <<User(1, "Zezima"), User(2, NoName)>>

\* bot.competition_managers, in the order EventFactory registers the types (two
\* of the five types).
ManagerTypes == <<"skill_competition", "trivia">>

\* CompetitionStatus
Statuses == {"pending", "active", "completed", "cancelled", "paused"}

\* timedelta(minutes=5), the registration period, in ticks. The model keeps the
\* order of the instants, not their distances: an hour of duration is one tick.
RegistrationPeriod == 1

\* duration_hours and max_participants an administrator passes.
DurationHours == {1}

MaxParticipantsArgs == {2}

\* settings.bot.max_concurrent_competitions
max_concurrent_competitions == 5

\* Attribute access obj.name for a method or field of Competition: a dict has
\* keys, not attributes, and raises AttributeError.
HasAttr(o) == o.repr = "Competition"

\* The competition dict _create_base_competition builds.
NewCompetition(id, type, d, maxp) ==
    [id |-> id, type |-> type, status |-> "pending",
     start_time |-> now + RegistrationPeriod,
     end_time |-> now + RegistrationPeriod + d,
     max_participants |-> maxp, participants |-> << >>, winners |-> << >>]

\* A validator that does not compare the dates.
CompetitionValidate_DatesUnchecked(c) ==
    /\ c.max_participants >= 2 /\ c.max_participants <= 200
    /\ Len(c.participants) <= c.max_participants
    /\ Range(c.winners) \subseteq Range(c.participants)

\* Competition.validate: dates, capacity, winners.
CompetitionValidate(c) ==
    /\ c.max_participants >= 2 /\ c.max_participants <= 200
    /\ c.start_time < c.end_time
    /\ Len(c.participants) <= c.max_participants
    /\ Range(c.winners) \subseteq Range(c.participants)

\* CompetitionRepository._validate_data: every entry builds a valid Competition.
ValidateCompetitions(doc) == \A i \in DOMAIN doc : CompetitionValidate(doc[i])

\* json.dumps as it would be if it accepted the ParticipantData objects that
\* validation leaves in the document.
JsonSerializable_Always(doc) == TRUE

\* json.dumps(data) in _write_file, after _validate_data(data) has built a
\* Competition from every entry: __post_init__ replaces, in the participants
\* dict of the entry itself, each participant's dict by a ParticipantData
\* object, and json.dumps raises TypeError on such an object.
JsonSerializable(doc) == \A i \in DOMAIN doc : doc[i].participants = << >>

\* _write_file: what it raises; the file is replaced only when it raises nothing.
WriteFile(doc) ==
    IF ~ValidateCompetitions(doc) THEN "ValidationError"
    ELSE IF ~JsonSerializable(doc) THEN "DatabaseError"
    ELSE "ok"

\* competition_id in data["competitions"]
HasComp(doc, id) == \E i \in DOMAIN doc : doc[i].id = id

\* data["competitions"][competition_id]
GetComp(doc, id) == doc[CHOOSE i \in DOMAIN doc : doc[i].id = id]

\* data["competitions"][competition_id] = value
PutComp(doc, c) ==
    IF HasComp(doc, c.id)
    THEN [i \in DOMAIN doc |-> IF doc[i].id = c.id THEN c ELSE doc[i]]
    ELSE Append(doc, c)

\* An add_participant that admits a participant beyond the capacity.
EntityAddParticipant_OffByOne(c, uid) ==
    IF uid \in Range(c.participants)
    THEN [raised |-> "CompetitionError: already registered", comp |-> c]
    ELSE IF Len(c.participants) > c.max_participants
    THEN [raised |-> "CompetitionError: full", comp |-> c]
    ELSE IF c.status \notin {"pending", "active"}
    THEN [raised |-> "CompetitionError: status", comp |-> c]
    ELSE IF uid <= 0
    THEN [raised |-> "ValidationError", comp |-> c]
    ELSE [raised |-> "none",
          comp |-> [c EXCEPT !.participants = Append(@, uid)]]

\* Competition.add_participant: the exception raised, if any, and the entity
\* afterwards. The participants are kept in registration order. The last check
\* is ParticipantData's: a user id is a positive integer.
EntityAddParticipant(c, uid) ==
    IF uid \in Range(c.participants)
    THEN [raised |-> "CompetitionError: already registered", comp |-> c]
    ELSE IF Len(c.participants) >= c.max_participants
    THEN [raised |-> "CompetitionError: full", comp |-> c]
    ELSE IF c.status \notin {"pending", "active"}
    THEN [raised |-> "CompetitionError: status", comp |-> c]
    ELSE IF uid <= 0
    THEN [raised |-> "ValidationError", comp |-> c]
    ELSE [raised |-> "none",
          comp |-> [c EXCEPT !.participants = Append(@, uid)]]

\* Competition.remove_participant: the participant leaves the map and the
\* winners list.
EntityRemoveParticipant(c, uid) ==
    [c EXCEPT !.participants = SelectSeq(@, LAMBDA x : x # uid),
              !.winners = SelectSeq(@, LAMBDA x : x # uid)]

\* Competition.is_participant
IsParticipant(c, uid) == uid \in Range(c.participants)

\* Competition.can_register
CanRegister(c) ==
    /\ c.status \in {"pending", "active"}
    /\ Len(c.participants) < c.max_participants

\* PlaceholderManager.calculate_rankings on an entity: the user ids sorted by
\* registration time.
CalculateRankings(c) == c.participants

\* final_rankings[:3]
TopThree(r) == SubSeq(r, 1, IF Len(r) < 3 THEN Len(r) ELSE 3)

\* BaseCompetitionManager.get_active_competitions of the manager of a type.
GetActiveCompetitions(doc, type) ==
    SelectSeq(doc, LAMBDA c : c.type = type /\ c.status \in {"pending", "active"})

-----------------------------------------------------------------------------
\* ====== a Competition entity under add_participant / remove_participant ====

\* The user ids handed to the entity; 0 is no Discord id.
EntityUserIds == {0, 1, 2, 3, 4}

\* max_participants of the entities.
EntityCapacities == {2, 3}

\* add_participant(user_id)
EntAddParticipant(uid) ==
    /\ HasAttr(ent)
    /\ LET r == EntityAddParticipant(ent.v, uid) IN
       /\ ent' = Obj("Competition", r.comp)
       /\ last' = [op |-> "add_participant", raised |-> r.raised]
    /\ UNCHANGED notEntVars

\* remove_participant(user_id)
EntRemoveParticipant(uid) ==
    /\ HasAttr(ent)
    /\ ent' = Obj("Competition", EntityRemoveParticipant(ent.v, uid))
    /\ last' = [op |-> "remove_participant", raised |-> "none"]
    /\ UNCHANGED notEntVars

\* cancel(): the status becomes cancelled whatever it was.
EntCancel ==
    /\ HasAttr(ent)
    /\ ent.v.status # "cancelled"
    /\ ent' = Obj("Competition", [ent.v EXCEPT !.status = "cancelled"])
    /\ last' = [op |-> "cancel", raised |-> "none"]
    /\ UNCHANGED notEntVars

EntityNext ==
    \/ \E uid \in EntityUserIds : EntAddParticipant(uid)
    \/ \E uid \in EntityUserIds : EntRemoveParticipant(uid)
    \/ EntCancel

\* A Competition without participants, of any status and capacity.
InitEntity ==
    /\ RepoInit
    /\ UsersInit
    /\ CompInit
    /\ ent \in {Obj("Competition",
                    [NewCompetition(1, "skill_competition", 1, maxp)
                        EXCEPT !.status = st]) :
                 maxp \in EntityCapacities, st \in Statuses}
    /\ last = [op |-> "none", raised |-> "none"]

SpecEntity == InitEntity /\ [][EntityNext]_vars

\* C7: on a Competition entity, through any sequence of add_participant and
\* remove_participant calls, the number of participants never exceeds
\* max_participants; an add_participant with a user id (a positive integer)
\* that is not registered, on a pending or active competition, succeeds exactly
\* when the number of participants is below max_participants, a successful add
\* appends the user, and an add that raises leaves the participants as they
\* were.
Thm_C7_Capacity ==
    /\ [](HasAttr(ent) => Len(ent.v.participants) <= ent.v.max_participants)
    /\ [][\A uid \in EntityUserIds : EntAddParticipant(uid) =>
            /\ (/\ uid > 0
                /\ ~IsParticipant(ent.v, uid)
                /\ ent.v.status \in {"pending", "active"})
               => (last'.raised = "none"
                     <=> Len(ent.v.participants) < ent.v.max_participants)
            /\ last'.raised = "none"
               => ent'.v.participants = Append(ent.v.participants, uid)
            /\ last'.raised # "none"
               => ent'.v.participants = ent.v.participants]_vars

\* C7: an add_participant with a user id that is not registered has just been
\* refused by a pending or active competition that holds max_participants
\* participants.
Wit_C7_FullRefused ==
    /\ HasAttr(ent)
    /\ last = [op |-> "add_participant", raised |-> "CompetitionError: full"]
    /\ ent.v.status \in {"pending", "active"}
    /\ Len(ent.v.participants) = ent.v.max_participants

-----------------------------------------------------------------------------
\* ====== commands and repository calls on the competitions document ========

\* The ids _generate_competition_id produces, in the order of their generation.
CompIds == {1, 2}

\* The first await of each operation.
CompFirstPc(op) ==
    CASE op = "create_competition" -> "cc_check"
      [] op = "cancel_competition" -> "cn_find"
      [] op = "update_competition_status" -> "us_get"
      [] op = "add_participant" -> "ad_get"
      [] op = "remove_participant" -> "rm_get"
      [] op = "join_competition" -> "jn_find"
      [] op = "leave_competition" -> "lv_find"

\* The arguments each operation is called with.
CompCallArgs ==
    [op : {"create_competition"}, cid : {0}, uid : Members,
     arg : Range(ManagerTypes)]
    \cup [op : {"cancel_competition"}, cid : CompIds, uid : {0}, arg : {"none"}]
    \cup [op : {"update_competition_status"}, cid : CompIds, uid : {0},
          arg : {"active", "completed"}]
    \cup [op : {"add_participant", "remove_participant", "join_competition",
                "leave_competition"},
          cid : CompIds, uid : Members, arg : {"none"}]

NewCompCall(a) ==
    [op |-> a.op, cid |-> a.cid, uid |-> a.uid, arg |-> a.arg,
     pc |-> CompFirstPc(a.op), obj |-> NoObj, data |-> << >>, result |-> "none"]

\* The call returns, answers the member or raises: its locals are gone.
CompFinish(t, r) ==
    [ct EXCEPT ![t] = [IdleCompCall EXCEPT !.pc = "done", !.result = r]]

CompRunning == {t \in CompSlots : ct[t].pc \notin {"idle", "done"}}

\* An administrator, a member or a caller starts an operation.
\* A create_competition call is given the id that _generate_competition_id
\* will produce for it (a fresh one).
StartCompCall(a) ==
    /\ ccalls < MaxCompCalls
    /\ CompRunning # CompSlots
    /\ a.op = "create_competition" => nextId + 1 \in CompIds
    /\ LET s == CHOOSE f \in CompSlots \ CompRunning :
                    \A g \in CompSlots \ CompRunning : f <= g
       IN ct' = [ct EXCEPT ![s] =
                    IF a.op = "create_competition"
                    THEN [NewCompCall(a) EXCEPT !.cid = nextId + 1]
                    ELSE NewCompCall(a)]
    /\ nextId' = IF a.op = "create_competition" THEN nextId + 1 ELSE nextId
    /\ ccalls' = ccalls + 1
    /\ mon' = IF mon.pc = "idle" THEN mon ELSE [mon EXCEPT !.alone = FALSE]

CompCall(a) ==
    /\ StartCompCall(a)
    /\ UNCHANGED <<comps, now, notCompVars>>

\* _create_base_competition up to the competition dict: the creator must have a
\* user record, the manager's pending and active competitions must be fewer
\* than max_concurrent_competitions; the id is fresh.
CreateCompetitionCheck(t) ==
    /\ ct[t].pc = "cc_check"
    /\ IF ~HasUser(users, ct[t].uid)
       THEN ct' = CompFinish(t, "UserNotFoundError")
       ELSE IF Len(GetActiveCompetitions(comps, ct[t].arg))
                  >= max_concurrent_competitions
       THEN ct' = CompFinish(t, "CompetitionError")
       ELSE \E d \in DurationHours, maxp \in MaxParticipantsArgs :
               ct' = [ct EXCEPT
                       ![t].pc = "cc_load",
                       ![t].obj = Obj("dict",
                           NewCompetition(ct[t].cid, ct[t].arg, d, maxp))]
    /\ UNCHANGED <<comps, now, mon, ccalls, nextId, notCompVars>>

\* competitions_data = load_data(); competitions_data[id] = competition_data
CreateCompetitionLoad(t) ==
    /\ ct[t].pc = "cc_load"
    /\ ct' = [ct EXCEPT ![t].pc = "save", ![t].data = PutComp(comps, ct[t].obj.v)]
    /\ UNCHANGED <<comps, now, mon, ccalls, nextId, notCompVars>>

\* await self.save_data(data) of the competition repository.
CompSaveData(t) ==
    /\ ct[t].pc = "save"
    /\ comps' = IF WriteFile(ct[t].data) = "ok" THEN ct[t].data ELSE comps
    /\ ct' = CompFinish(t, WriteFile(ct[t].data))
    /\ UNCHANGED <<now, mon, ccalls, nextId, notCompVars>>

\* cancel_competition command: competition_repo.get_by_id, manager lookup.
CancelCommandFind(t) ==
    /\ ct[t].pc = "cn_find"
    /\ ct' = IF ~HasComp(comps, ct[t].cid) THEN CompFinish(t, "not found")
             ELSE [ct EXCEPT ![t].pc = "cn_get"]
    /\ UNCHANGED <<comps, now, mon, ccalls, nextId, notCompVars>>

\* manager.cancel_competition: get_competition, then the status is set to
\* cancelled whatever it was.
CancelCompetitionGet(t) ==
    /\ ct[t].pc = "cn_get"
    /\ ct' = IF ~HasComp(comps, ct[t].cid)
             THEN CompFinish(t, "CompetitionNotFoundError")
             ELSE [ct EXCEPT
                     ![t].pc = "cn_write",
                     ![t].obj = Obj("dict", [GetComp(comps, ct[t].cid) EXCEPT
                                                !.status = "cancelled"])]
    /\ UNCHANGED <<comps, now, mon, ccalls, nextId, notCompVars>>

\* update_field("competitions.<id>", competition): read, replace the entry and
\* write under one hold of the lock.
CancelCompetitionWrite(t) ==
    /\ ct[t].pc = "cn_write"
    /\ LET data == PutComp(comps, ct[t].obj.v) IN
       /\ comps' = IF WriteFile(data) = "ok" THEN data ELSE comps
       /\ ct' = CompFinish(t, WriteFile(data))
    /\ UNCHANGED <<now, mon, ccalls, nextId, notCompVars>>

\* update_competition_status: get_by_id, set the status and the timestamps;
\* the old status is not looked at except for the start time.
UpdateCompetitionStatusGet(t) ==
    /\ ct[t].pc = "us_get"
    /\ ct' = IF ~HasComp(comps, ct[t].cid)
             THEN CompFinish(t, "CompetitionNotFoundError")
             ELSE LET c == GetComp(comps, ct[t].cid)
                      new == ct[t].arg
                  IN [ct EXCEPT
                        ![t].pc = "uc_load",
                        ![t].obj = Obj("Competition",
                          [c EXCEPT
                            !.status = new,
                            !.start_time =
                               IF new = "active" /\ c.status = "pending"
                               THEN now ELSE @,
                            !.end_time =
                               IF new = "completed" THEN now ELSE @])]
    /\ UNCHANGED <<comps, now, mon, ccalls, nextId, notCompVars>>

\* CompetitionRepository.add_participant: get_by_id, entity.add_participant.
AddParticipantGet(t) ==
    /\ ct[t].pc = "ad_get"
    /\ ct' = IF ~HasComp(comps, ct[t].cid)
             THEN CompFinish(t, "CompetitionNotFoundError")
             ELSE LET r == EntityAddParticipant(GetComp(comps, ct[t].cid),
                                                ct[t].uid)
                  IN IF r.raised # "none" THEN CompFinish(t, r.raised)
                     ELSE [ct EXCEPT ![t].pc = "uc_load",
                                     ![t].obj = Obj("Competition", r.comp)]
    /\ UNCHANGED <<comps, now, mon, ccalls, nextId, notCompVars>>

\* CompetitionRepository.remove_participant: get_by_id, entity.remove_participant;
\* nothing is written when the user was no participant.
RemoveParticipantGet(t) ==
    /\ ct[t].pc = "rm_get"
    /\ ct' = IF ~HasComp(comps, ct[t].cid)
             THEN CompFinish(t, "CompetitionNotFoundError")
             ELSE LET c == GetComp(comps, ct[t].cid) IN
                  IF ~IsParticipant(c, ct[t].uid) THEN CompFinish(t, "ok")
                  ELSE [ct EXCEPT
                         ![t].pc = "uc_load",
                         ![t].obj = Obj("Competition",
                                        EntityRemoveParticipant(c, ct[t].uid))]
    /\ UNCHANGED <<comps, now, mon, ccalls, nextId, notCompVars>>

\* update_competition: data = load_data(); the entry is replaced by the entity
\* the caller holds.
UpdateCompetitionLoad(t) ==
    /\ ct[t].pc = "uc_load"
    /\ ct' = IF ~HasComp(comps, ct[t].cid)
             THEN CompFinish(t, "CompetitionNotFoundError")
             ELSE [ct EXCEPT ![t].pc = "save",
                             ![t].data = PutComp(comps, ct[t].obj.v)]
    /\ UNCHANGED <<comps, now, mon, ccalls, nextId, notCompVars>>

\* join_competition command up to the manager lookup: the member needs a user
\* record, the competition must exist, accept registrations and not list the
\* member yet.
JoinCompetitionFind(t) ==
    /\ ct[t].pc = "jn_find"
    /\ ct' = IF ~HasUser(users, ct[t].uid) THEN CompFinish(t, "link first")
             ELSE IF ~HasComp(comps, ct[t].cid) THEN CompFinish(t, "not found")
             ELSE LET c == GetComp(comps, ct[t].cid) IN
                  IF ~CanRegister(c) THEN CompFinish(t, "cannot join")
                  ELSE IF IsParticipant(c, ct[t].uid)
                  THEN CompFinish(t, "already registered")
                  ELSE [ct EXCEPT ![t].pc = "jn_register"]
    /\ UNCHANGED <<comps, now, mon, ccalls, nextId, notCompVars>>

\* PlaceholderManager.register_participant: competition = get_competition(id),
\* then competition.add_participant(...) and update_competition(competition).
\* Every exception ends the command with a failure message.
RegisterParticipant(t) ==
    /\ ct[t].pc = "jn_register"
    /\ ct' = IF ~HasComp(comps, ct[t].cid)
             THEN CompFinish(t, "CompetitionNotFoundError")
             ELSE LET competition == Obj("dict", GetComp(comps, ct[t].cid)) IN
                  IF ~HasAttr(competition) THEN CompFinish(t, "AttributeError")
                  ELSE LET r == EntityAddParticipant(competition.v, ct[t].uid)
                       IN IF r.raised # "none" THEN CompFinish(t, r.raised)
                          ELSE [ct EXCEPT ![t].pc = "uc_load",
                                          ![t].obj = Obj("Competition", r.comp)]
    /\ UNCHANGED <<comps, now, mon, ccalls, nextId, notCompVars>>

\* A leave_competition command that does not look at the status.
LeaveCompetitionFind_NoStatusCheck(t) ==
    /\ ct[t].pc = "lv_find"
    /\ ct' = IF ~HasComp(comps, ct[t].cid) THEN CompFinish(t, "not found")
             ELSE IF ~IsParticipant(GetComp(comps, ct[t].cid), ct[t].uid)
             THEN CompFinish(t, "not registered")
             ELSE [ct EXCEPT ![t].pc = "rm_get"]
    /\ UNCHANGED <<comps, now, mon, ccalls, nextId, notCompVars>>

\* leave_competition command: the competition must exist, list the member and
\* not be active; then competition_repo.remove_participant.
LeaveCompetitionFind(t) ==
    /\ ct[t].pc = "lv_find"
    /\ ct' = IF ~HasComp(comps, ct[t].cid) THEN CompFinish(t, "not found")
             ELSE LET c == GetComp(comps, ct[t].cid) IN
                  IF ~IsParticipant(c, ct[t].uid)
                  THEN CompFinish(t, "not registered")
                  ELSE IF c.status = "active" THEN CompFinish(t, "cannot leave")
                  ELSE [ct EXCEPT ![t].pc = "rm_get"]
    /\ UNCHANGED <<comps, now, mon, ccalls, nextId, notCompVars>>

\* Time passes.
Tick ==
    /\ now < MaxNow
    /\ now' = now + 1
    /\ UNCHANGED <<comps, mon, ct, ccalls, nextId, notCompVars>>

-----------------------------------------------------------------------------
\* ================= bot.py: competition_monitor ============================

\* The pass ends: normally, or because an exception reached the except clause
\* around the two loops, which logs it.
EndPass(r) == [IdleMonitor EXCEPT !.result = r]

\* The monitor after a manager's list has been served up to position i - 1:
\* the body of the inner loop runs on the dicts of the list until it has to
\* await. A pending competition whose start time has come is started, an
\* active one whose end time has come is ended; after the list comes the next
\* manager and after the last manager the end of the pass.
Advance(m, i) ==
    LET todo == {j \in i..Len(m.list) :
                    \/ m.list[j].status = "pending" /\ now >= m.list[j].start_time
                    \/ m.list[j].status = "active" /\ now >= m.list[j].end_time}
    IN IF todo = {}
       THEN IF m.mgr < Len(ManagerTypes)
            THEN [m EXCEPT !.pc = "list", !.mgr = @ + 1, !.list = << >>,
                           !.i = 0, !.obj = NoObj]
            ELSE EndPass("ok")
       ELSE LET j == CHOOSE k \in todo : \A l \in todo : k <= l IN
            [m EXCEPT !.i = j, !.obj = NoObj,
                      !.pc = IF m.list[j].status = "pending"
                             THEN "start_get" ELSE "end_get"]

\* One turn of the outer loop: active_competitions = await
\* manager.get_active_competitions(), for the first manager when the loop
\* fires and for the next one after a list is done.
MonitorList ==
    /\ mon.pc \in {"idle", "list"}
    /\ LET m == IF mon.pc = "idle"
                THEN [IdleMonitor EXCEPT !.mgr = 1, !.alone = (CompRunning = {})]
                ELSE mon
           l == GetActiveCompetitions(comps, ManagerTypes[m.mgr])
       IN mon' = Advance(
                   [m EXCEPT
                      !.list = l,
                      !.due = @ \cup {l[k].id : k \in {j \in DOMAIN l :
                          l[j].status = "pending" /\ now >= l[j].start_time}},
                      !.expired = @ \cup {l[k].id : k \in {j \in DOMAIN l :
                          l[j].status = "active" /\ now >= l[j].end_time}}],
                   1)
    /\ UNCHANGED <<comps, now, ct, ccalls, nextId, notCompVars>>

\* start_competition: get_competition, the status must be pending; the dict
\* gets status active and start_time = utcnow().
StartCompetitionGet ==
    /\ mon.pc = "start_get"
    /\ LET id == mon.list[mon.i].id IN
       mon' = IF ~HasComp(comps, id) THEN EndPass("CompetitionNotFoundError")
              ELSE IF GetComp(comps, id).status # "pending"
              THEN EndPass("CompetitionError")
              ELSE [mon EXCEPT
                      !.pc = "start_write",
                      !.obj = Obj("dict", [GetComp(comps, id) EXCEPT
                                              !.status = "active",
                                              !.start_time = now])]
    /\ UNCHANGED <<comps, now, ct, ccalls, nextId, notCompVars>>

\* start_competition: update_field("competitions.<id>", competition); the
\* write validates the whole document.
StartCompetitionWrite ==
    /\ mon.pc = "start_write"
    /\ LET data == PutComp(comps, mon.obj.v) IN
       IF WriteFile(data) = "ok"
       THEN /\ comps' = data
            /\ mon' = Advance(mon, mon.i + 1)
       ELSE /\ comps' = comps
            /\ mon' = EndPass(WriteFile(data))
    /\ UNCHANGED <<now, ct, ccalls, nextId, notCompVars>>

\* end_competition: get_competition, the status must be active or paused.
EndCompetitionGet ==
    /\ mon.pc = "end_get"
    /\ LET id == mon.list[mon.i].id IN
       mon' = IF ~HasComp(comps, id) THEN EndPass("CompetitionNotFoundError")
              ELSE IF GetComp(comps, id).status \notin {"active", "paused"}
              THEN EndPass("CompetitionError")
              ELSE [mon EXCEPT !.pc = "end_rank",
                               !.obj = Obj("dict", GetComp(comps, id))]
    /\ UNCHANGED <<comps, now, ct, ccalls, nextId, notCompVars>>

\* end_competition: final_rankings = await self.calculate_rankings(id), which
\* reads competition.participants of what get_competition returns; then the
\* winners, status completed, end_time = utcnow() and update_field.
EndCompetitionRank ==
    /\ mon.pc = "end_rank"
    /\ LET id == mon.list[mon.i].id IN
       IF ~HasComp(comps, id)
       THEN comps' = comps /\ mon' = EndPass("CompetitionNotFoundError")
       ELSE LET competition == Obj("dict", GetComp(comps, id)) IN
            IF ~HasAttr(competition)
            THEN comps' = comps /\ mon' = EndPass("AttributeError")
            ELSE LET data == PutComp(comps,
                        [mon.obj.v EXCEPT
                            !.status = "completed",
                            !.end_time = now,
                            !.winners = TopThree(CalculateRankings(competition.v))])
                 IN IF WriteFile(data) = "ok"
                    THEN /\ comps' = data
                         /\ mon' = Advance(mon, mon.i + 1)
                    ELSE /\ comps' = comps
                         /\ mon' = EndPass(WriteFile(data))
    /\ UNCHANGED <<now, ct, ccalls, nextId, notCompVars>>

CompNext ==
    \/ \E a \in CompCallArgs : CompCall(a)
    \/ \E t \in CompSlots : CreateCompetitionCheck(t)
    \/ \E t \in CompSlots : CreateCompetitionLoad(t)
    \/ \E t \in CompSlots : CompSaveData(t)
    \/ \E t \in CompSlots : CancelCommandFind(t)
    \/ \E t \in CompSlots : CancelCompetitionGet(t)
    \/ \E t \in CompSlots : CancelCompetitionWrite(t)
    \/ \E t \in CompSlots : UpdateCompetitionStatusGet(t)
    \/ \E t \in CompSlots : AddParticipantGet(t)
    \/ \E t \in CompSlots : RemoveParticipantGet(t)
    \/ \E t \in CompSlots : UpdateCompetitionLoad(t)
    \/ \E t \in CompSlots : JoinCompetitionFind(t)
    \/ \E t \in CompSlots : RegisterParticipant(t)
    \/ \E t \in CompSlots : LeaveCompetitionFind(t)
    \/ Tick
    \/ MonitorList
    \/ StartCompetitionGet
    \/ StartCompetitionWrite
    \/ EndCompetitionGet
    \/ EndCompetitionRank

\* The bot with two members on record and no competition yet.
InitComp ==
    /\ RepoInit
    /\ users = RegisteredUsers
    /\ ut = [s \in Slots |-> IdleCall]
    /\ calls = 0
    /\ serial = TRUE
    /\ hist = [adds |-> [id \in UserIds |-> 0], created |-> {}]
    /\ CompInit
    /\ EntInit

SpecComp == InitComp /\ [][CompNext]_vars

\* A monitor pass ends at this step, and no command or repository call has
\* run while it was under way.
PassEndsAlone == mon.pc # "idle" /\ mon'.pc = "idle" /\ mon.alone

\* C1: when a monitor pass ends, every competition that the pass listed as
\* pending with now >= start_time has the persisted status active, whatever
\* other competitions there are and also when now >= end_time.
CE_C1_DueStarted ==
    [][PassEndsAlone =>
         \A id \in mon.due : GetComp(comps', id).status = "active"]_vars

\* When the pass listed no active competition past its end_time and every
\* pending competition it listed with now >= start_time has now < end_time,
\* those competitions are active when the pass ends.
DueStartedInTime ==
    [][(/\ PassEndsAlone
        /\ mon.expired = {}
        /\ \A id \in mon.due : now < GetComp(comps, id).end_time)
       => \A id \in mon.due : GetComp(comps', id).status = "active"]_vars

\* C2: when a monitor pass ends, every competition that the pass listed as
\* active with now >= end_time has the persisted status completed, and its
\* winners are the first three user ids of calculate_rankings, in ranking order.
CE_C2_ExpiredCompleted ==
    [][PassEndsAlone =>
         \A id \in mon.expired :
            LET c == GetComp(comps', id) IN
            /\ c.status = "completed"
            /\ c.winners = TopThree(CalculateRankings(c))]_vars

\* C3: a competition whose persisted status is completed or cancelled keeps
\* that status through every step.
CE_C3_TerminalStatus ==
    [][\A i \in DOMAIN comps :
          comps[i].status \in {"completed", "cancelled"}
          => GetComp(comps', comps[i].id).status = comps[i].status]_vars

\* The conditions of a join: the member has linked an account, the competition
\* exists, is pending or active, is not full and does not list the member.
CanJoin(cid, uid) ==
    /\ HasUser(users, uid)
    /\ GetUser(users, uid).osrs_username # NoName
    /\ HasComp(comps, cid)
    /\ CanRegister(GetComp(comps, cid))
    /\ ~IsParticipant(GetComp(comps, cid), uid)

\* C8: when join_competition, called under the conditions of a join, ends at
\* the manager's register_participant or at the write that follows it, the
\* member is a participant of the persisted competition and the number of
\* participants has grown by one.
CE_C8_JoinRegisters ==
    [][\A t \in CompSlots :
          (/\ ct[t].op = "join_competition"
           /\ RegisterParticipant(t) \/ CompSaveData(t)
           /\ CanJoin(ct[t].cid, ct[t].uid)
           /\ ct'[t].pc = "done")
          => /\ IsParticipant(GetComp(comps', ct[t].cid), ct[t].uid)
             /\ Len(GetComp(comps', ct[t].cid).participants)
                  = Len(GetComp(comps, ct[t].cid).participants) + 1]_vars

-----------------------------------------------------------------------------
\* ============ entities written as documents and read back ================

\* The final results a participant can hold: none, an empty one, a scored one.
FinalResults == {None, Some({}), Some({"score"})}

ParticipantData(uid, progress, fr) ==
    [user_id |-> uid, starting_stats |-> {}, current_progress |-> progress,
     final_result |-> fr, notes |-> ""]

\* The valid Competition entities of the model: every status and type,
\* without and with a participant, a cancellation reason only when cancelled,
\* a winner only when completed.
CompetitionEntities ==
    {[id |-> 1, type |-> Enum("CompetitionType", t),
      status |-> Enum("CompetitionStatus", st),
      max_participants |-> 2, participants |-> ps, winners |-> ws,
      cancellation_reason |-> cr] :
        t \in CompetitionTypes, st \in Statuses,
        ps \in {<< >>} \cup {<<ParticipantData(1, pr, fr)>> :
                               pr \in Dicts, fr \in FinalResults},
        ws \in {<< >>, <<1>>}, cr \in {None, Some("no interest")}}

ValidCompetitionEntities ==
    {c \in CompetitionEntities :
        /\ c.cancellation_reason # None => c.status.value = "cancelled"
        /\ c.winners # << >> =>
             c.status.value = "completed" /\ c.participants # << >>}

\* The valid User entities of the model.
UserEntities ==
    {[discord_id |-> 1, osrs_username |-> n, wise_old_man_id |-> w,
      total_competitions |-> tw[1], wins |-> tw[2],
      preferences |-> [notifications |-> nf,
                       privacy_level |-> Enum("PrivacyLevel", pl)],
      achievements |-> a, display_name |-> dn] :
        n \in {None, Some("Zezima")}, w \in {None, Some(5)},
        tw \in {<<0, 0>>, <<2, 1>>}, nf \in BOOLEAN, pl \in PrivacyLevels,
        a \in {<< >>, <<"first_win">>}, dn \in {None, Some("Zez")}}

\* The valid Leaderboard entities of the model: ranked from 1 by descending
\* score.
LeaderboardEntities ==
    {[leaderboard_type |-> Enum("LeaderboardType", t), entries |-> es,
      period_start |-> p[1], period_end |-> p[2]] :
        t \in LeaderboardTypes,
        es \in {<< >>} \cup
               {<<[user_id |-> 1, rank |-> 1, score |-> 10,
                   display_name |-> dn]>> : dn \in {None, Some("Zez")}} \cup
               {<<[user_id |-> 1, rank |-> 1, score |-> 10,
                   display_name |-> dn],
                  [user_id |-> 2, rank |-> 2, score |-> 7,
                   display_name |-> None]>> : dn \in {None, Some("Zez")}},
        p \in {<<None, None>>, <<Some(1), Some(2)>>}}

\* entity.to_dict()
EntityToDict ==
    /\ ent.repr \in {"Competition", "User", "Leaderboard"}
    /\ ent' = Obj("dict", [cls |-> ent.repr, doc |-> ToDict(ent.repr, ent.v)])
    /\ last' = [op |-> "to_dict", raised |-> "none", entity |-> ent]
    /\ UNCHANGED notEntVars

\* cls.from_dict(document)
EntityFromDict ==
    /\ ent.repr = "dict"
    /\ ent' = Obj(ent.v.cls, FromDict(ent.v.cls, ent.v.doc))
    /\ last' = [op |-> "from_dict", raised |-> "none", entity |-> last.entity]
    /\ UNCHANGED notEntVars

RoundTripNext ==
    \/ EntityToDict
    \/ EntityFromDict

InitRoundTrip ==
    /\ RepoInit
    /\ UsersInit
    /\ CompInit
    /\ ent \in {Obj("Competition", c) : c \in ValidCompetitionEntities}
               \cup {Obj("User", u) : u \in UserEntities}
               \cup {Obj("Leaderboard", l) : l \in LeaderboardEntities}
    /\ last = [op |-> "none", raised |-> "none", entity |-> NoObj]

SpecRoundTrip == InitRoundTrip /\ [][RoundTripNext]_vars

\* C15: for every valid Competition, User and Leaderboard entity, the entity
\* read back with from_dict from its to_dict document equals the original in
\* every field.
CE_C15_RoundTrip ==
    [](last.op = "from_dict" => ent = last.entity)

\* The entity holds a participant whose final result is the empty dict.
HasEmptyFinalResult(o) ==
    /\ o.repr = "Competition"
    /\ \E i \in DOMAIN o.v.participants :
          o.v.participants[i].final_result = Some({})

\* C15, for the entities without an empty final result: the entity read back
\* equals the original.
RoundTripUnlessEmptyResult ==
    []((last.op = "from_dict" /\ ~HasEmptyFinalResult(last.entity))
          => ent = last.entity)

-----------------------------------------------------------------------------
\* ============ rate_limiter.py: CommandRateLimiter ==========================

\* The users that invoke commands.
LimiterUsers == {1, 2}

\* default_limit and window_seconds (in seconds of the clock) of the limiters.
Limits == {1, 3}

Windows == {1, 2}

\* CommandRateLimiter(default_limit, window_seconds); no custom limits.
CommandRateLimiter(limit, window) ==
    [default_limit |-> limit, window_seconds |-> window,
     user_commands |-> [u \in LimiterUsers |-> << >>]]

\* The timestamps of a list that are later than the cutoff, in order.
RECURSIVE After(_, _)
After(stamps, cutoff) ==
    IF stamps = << >> THEN << >>
    ELSE IF Head(stamps) > cutoff
         THEN <<Head(stamps)>> \o After(Tail(stamps), cutoff)
         ELSE After(Tail(stamps), cutoff)

\* is_allowed as it would be if it recorded every call.
IsAllowed_CountsRejected(lim, u, t) ==
    LET kept == After(lim.user_commands[u], t - lim.window_seconds)
    IN  [result |-> Len(kept) < lim.default_limit,
         limiter |-> [lim EXCEPT !.user_commands[u] = Append(kept, t)]]

\* limiter.is_allowed(user_id) at time t: what it returns and the limiter
\* it leaves.
IsAllowed(lim, u, t) ==
    LET kept == After(lim.user_commands[u], t - lim.window_seconds)
    IN  IF Len(kept) < lim.default_limit
        THEN [result |-> TRUE,
              limiter |-> [lim EXCEPT !.user_commands[u] = Append(kept, t)]]
        ELSE [result |-> FALSE,
              limiter |-> [lim EXCEPT !.user_commands[u] = kept]]

Min(S) == CHOOSE x \in S : \A y \in S : x <= y

\* limiter.get_reset_time(user_id) at time t
GetResetTime(lim, u, t) ==
    IF lim.user_commands[u] = << >> THEN 0
    ELSE LET reset_time == Min(Range(lim.user_commands[u]))
                             + lim.window_seconds
         IN  IF reset_time - t > 0 THEN reset_time - t ELSE 0

\* What the actions of the limiter leave alone: all but the clock, ent, last.
notLimiterVars == <<fs, backups, wr, rd, writes, userVars, compVars>>

\* One second passes.
LimiterTick ==
    /\ clock < MaxTime
    /\ clock' = clock + 1
    /\ UNCHANGED <<ent, last, notLimiterVars>>

\* limiter.is_allowed(u); last.allowed logs the allowed calls, never pruned.
LimiterIsAllowed(u) ==
    /\ ent.repr = "CommandRateLimiter"
    /\ last.n < MaxLimiterCalls
    /\ LET r == IsAllowed(ent.v, u, clock)
       IN  /\ ent' = Obj("CommandRateLimiter", r.limiter)
           /\ last' = [op |-> "is_allowed", raised |-> "none",
                       user |-> u, result |-> r.result, n |-> last.n + 1,
                       allowed |-> IF r.result
                                   THEN Append(last.allowed,
                                               [user |-> u, time |-> clock])
                                   ELSE last.allowed]
    /\ UNCHANGED <<clock, notLimiterVars>>

\* limiter.get_reset_time(u)
LimiterGetResetTime(u) ==
    /\ ent.repr = "CommandRateLimiter"
    /\ last' = [last EXCEPT !.op = "get_reset_time", !.user = u,
                            !.result = GetResetTime(ent.v, u, clock)]
    /\ UNCHANGED <<ent, clock, notLimiterVars>>

LimiterNext ==
    \/ LimiterTick
    \/ \E u \in LimiterUsers : LimiterIsAllowed(u)
    \/ \E u \in LimiterUsers : LimiterGetResetTime(u)

InitLimiter ==
    /\ RepoInit
    /\ UsersInit
    /\ CompInit
    /\ ent \in {Obj("CommandRateLimiter", CommandRateLimiter(l, w)) :
                 l \in Limits, w \in Windows}
    /\ last = [op |-> "none", raised |-> "none", user |-> 0, result |-> FALSE,
               n |-> 0, allowed |-> << >>]

SpecLimiter == InitLimiter /\ [][LimiterNext]_vars

\* The number of allowed calls of user u with a timestamp in (t - w, t].
AllowedInWindow(log, u, t, w) ==
    Cardinality({i \in DOMAIN log :
                   log[i].user = u /\ log[i].time > t - w /\ log[i].time <= t})

\* C16: is_allowed returns true if and only if fewer than L previously allowed
\* calls of that user have timestamps inside the last W seconds; at most L
\* calls of a user are allowed in any window of W seconds; a rejected call is
\* not counted; and a call is allowed once the oldest counted call is W
\* seconds old (get_reset_time is 0).
Thm_C16_SlidingWindow ==
    /\ [][\A u \in LimiterUsers : LimiterIsAllowed(u) =>
            /\ last'.result =
                 (AllowedInWindow(last.allowed, u, clock,
                                  ent.v.window_seconds) < ent.v.default_limit)
            /\ ~last'.result =>
                 /\ last'.allowed = last.allowed
                 /\ Len(ent'.v.user_commands[u]) <= Len(ent.v.user_commands[u])
            /\ GetResetTime(ent.v, u, clock) = 0 => last'.result]_vars
    /\ [](ent.repr = "CommandRateLimiter" =>
            \A u \in LimiterUsers, t \in 0..MaxTime :
               AllowedInWindow(last.allowed, u, t, ent.v.window_seconds)
                 <= ent.v.default_limit)

\* C16: with limit 3, three calls of a user were allowed, a fourth was then
\* rejected at the same instant, and a later call of that user was allowed
\* again.
Wit_C16_FourthRejectedThenAllowed ==
    /\ ent.repr = "CommandRateLimiter"
    /\ ent.v.default_limit = 3
    /\ last.op = "is_allowed"
    /\ last.result
    /\ last.n = 5
    /\ Len(last.allowed) = 4
    /\ \A i \in 1..4 : last.allowed[i].user = last.user
    /\ \A i \in 1..3 : last.allowed[i].time = last.allowed[1].time

-----------------------------------------------------------------------------
\* ============ rate_limiter.py: RateLimitBucket =============================

\* capacity and refill_rate (tokens per second) of the buckets, and the
\* numbers of tokens asked for.
Capacities == {2, 5}

RefillRates == {1, 2}

ConsumeArgs == {1, 2}

\* RateLimitBucket(capacity, refill_rate) made at time t: __post_init__ fills
\* a bucket made with no tokens.
RateLimitBucket(capacity, refill_rate, t) ==
    [capacity |-> capacity, refill_rate |-> refill_rate,
     tokens |-> capacity, last_refill |-> t]

\* _refill as it would be if it only moved last_refill.
Refill_AddsNothing(b, t) == [b EXCEPT !.last_refill = t]

\* bucket._refill() at time t
Refill(b, t) ==
    LET tokens_to_add == (t - b.last_refill) * b.refill_rate
    IN  [b EXCEPT !.tokens = IF b.tokens + tokens_to_add < b.capacity
                             THEN b.tokens + tokens_to_add ELSE b.capacity,
                  !.last_refill = t]

\* bucket.consume(n) at time t: what it returns and the bucket it leaves.
Consume(b, n, t) ==
    LET r == Refill(b, t)
    IN  IF r.tokens >= n
        THEN [result |-> TRUE, bucket |-> [r EXCEPT !.tokens = r.tokens - n]]
        ELSE [result |-> FALSE, bucket |-> r]

\* bucket.time_until_available(n) at time t, in seconds, as a fraction.
TimeUntilAvailable(b, n, t) ==
    LET r == Refill(b, t)
    IN  [result |-> IF r.tokens >= n THEN [num |-> 0, den |-> 1]
                    ELSE [num |-> n - r.tokens, den |-> r.refill_rate],
         bucket |-> r]

\* One second passes.
BucketTick ==
    /\ clock < MaxBucketTime
    /\ clock' = clock + 1
    /\ UNCHANGED <<ent, last, notLimiterVars>>

\* bucket.consume(n); last.log keeps the calls made, with time and outcome.
BucketConsume(n) ==
    /\ ent.repr = "RateLimitBucket"
    /\ Len(last.log) < MaxBucketCalls
    /\ LET r == Consume(ent.v, n, clock)
       IN  /\ ent' = Obj("RateLimitBucket", r.bucket)
           /\ last' = [op |-> "consume", raised |-> "none",
                       result |-> r.result, wait |-> [num |-> 0, den |-> 1],
                       log |-> Append(last.log, [tokens |-> n, time |-> clock,
                                                 result |-> r.result])]
    /\ UNCHANGED <<clock, notLimiterVars>>

\* bucket.time_until_available(n)
BucketTimeUntilAvailable(n) ==
    /\ ent.repr = "RateLimitBucket"
    /\ LET r == TimeUntilAvailable(ent.v, n, clock)
       IN  /\ ent' = Obj("RateLimitBucket", r.bucket)
           /\ last' = [last EXCEPT !.op = "time_until_available",
                                   !.wait = r.result]
    /\ UNCHANGED <<clock, notLimiterVars>>

BucketNext ==
    \/ BucketTick
    \/ \E n \in ConsumeArgs : BucketConsume(n)
    \/ \E n \in ConsumeArgs : BucketTimeUntilAvailable(n)

InitBucket ==
    /\ RepoInit
    /\ UsersInit
    /\ CompInit
    /\ ent \in {Obj("RateLimitBucket", RateLimitBucket(c, r, 0)) :
                 c \in Capacities, r \in RefillRates}
    /\ last = [op |-> "none", raised |-> "none", result |-> FALSE,
               wait |-> [num |-> 0, den |-> 1], log |-> << >>]

SpecBucket == InitBucket /\ [][BucketNext]_vars

\* min(capacity, tokens + elapsed x refill_rate)
Refilled(b, t) ==
    LET grown == b.tokens + (t - b.last_refill) * b.refill_rate
    IN  IF grown <= b.capacity THEN grown ELSE b.capacity

\* The bucket has capacity 5 and refill rate 1, and five consume(1) calls made
\* at one instant have just drained it.
DrainedAtOnce ==
    /\ ent.repr = "RateLimitBucket"
    /\ ent.v.capacity = 5
    /\ ent.v.refill_rate = 1
    /\ Len(last.log) >= 5
    /\ \A i \in (Len(last.log) - 4)..Len(last.log) :
          /\ last.log[i] = [tokens |-> 1, time |-> ent.v.last_refill,
                            result |-> TRUE]
    /\ ent.v.tokens = 0

\* C17: consume(n) succeeds and deducts n if and only if, after the refill
\* tokens = min(capacity, tokens + elapsed x refill_rate), tokens >= n, and a
\* failed consume deducts nothing; a bucket with capacity 5 and refill rate 1
\* drained by five consume(1) calls at one instant rejects a sixth call at that
\* instant and accepts a consume(1) made one second later.
Thm_C17_TokenBucket ==
    /\ [][\A n \in ConsumeArgs : BucketConsume(n) =>
            /\ last'.result = (Refilled(ent.v, clock) >= n)
            /\ ent'.v.tokens = IF last'.result
                               THEN Refilled(ent.v, clock) - n
                               ELSE Refilled(ent.v, clock)]_vars
    /\ [][(DrainedAtOnce /\ BucketConsume(1)) =>
            /\ clock = ent.v.last_refill => ~last'.result
            /\ clock = ent.v.last_refill + 1 => last'.result]_vars

\* C17: a bucket with capacity 5 and refill rate 1 accepted five consume(1)
\* calls at one instant, rejected the sixth at that instant and accepted the
\* seventh one second later.
Wit_C17_DrainedThenRefilled ==
    /\ ent.repr = "RateLimitBucket"
    /\ ent.v.capacity = 5
    /\ ent.v.refill_rate = 1
    /\ Len(last.log) = 7
    /\ \A i \in 1..5 : last.log[i] = [tokens |-> 1, time |-> 0, result |-> TRUE]
    /\ last.log[6] = [tokens |-> 1, time |-> 0, result |-> FALSE]
    /\ last.log[7] = [tokens |-> 1, time |-> 1, result |-> TRUE]

-----------------------------------------------------------------------------
\* ============ decorators.py: require_admin ================================

\* ADMIN_ROLE_ID of the settings: not set, set to 0, set to a role id.
AdminRoleIds == {None, Some(0), Some(7)}

\* ADMIN_USER_IDS of the settings.
AdminUserIdLists == {{}, {1}, {1, 2}}

\* interaction.user.roles: None for a user met outside a guild (a User has no
\* roles attribute), else the ids of the member's roles.
RoleLists == {None, Some({7}), Some({8})}

\* The users that invoke admin commands.
Invokers == [id : Members, roles : RoleLists]

\* The commands of AdminCommands wrapped by require_admin that write.
AdminCommandArgs ==
    {a \in CompCallArgs : a.op \in {"create_competition", "cancel_competition"}}

\* A require_admin that lets everyone through.
RequireAdmin_AllowsAll(settings, user) == "call"

\* The wrapper of require_admin up to the call of the body: "call" when the
\* body is called, else what it raises.
RequireAdmin(settings, user) ==
    IF user.id \in settings.ADMIN_USER_IDS THEN "call"
    ELSE IF settings.ADMIN_ROLE_ID \notin {None, Some(0)}
    THEN IF user.roles = None THEN "AttributeError"
         ELSE IF \E r \in settings.ADMIN_ROLE_ID, rs \in user.roles : r \in rs
         THEN "call"
         ELSE "PermissionError"
    ELSE "PermissionError"

\* A member invokes an admin command: the wrapper runs, and the body starts
\* only when the wrapper calls it. last.bodies counts the bodies started.
AdminCommand(a, user) ==
    /\ ent.repr = "Settings"
    /\ a.op = "create_competition" => a.uid = user.id
    /\ LET r == RequireAdmin(ent.v, user)
       IN  /\ IF r = "call"
              THEN StartCompCall(a)
              ELSE UNCHANGED <<ct, nextId, ccalls, mon>>
           /\ last' = [op |-> a.op, raised |-> IF r = "call" THEN "none" ELSE r,
                       user |-> user,
                       bodies |-> last.bodies + (IF r = "call" THEN 1 ELSE 0)]
    /\ UNCHANGED <<ent, comps, now, repoVars, userVars>>

AdminNext ==
    \/ \E a \in AdminCommandArgs, user \in Invokers : AdminCommand(a, user)
    \/ \E t \in CompSlots : CreateCompetitionCheck(t)
    \/ \E t \in CompSlots : CreateCompetitionLoad(t)
    \/ \E t \in CompSlots : CompSaveData(t)
    \/ \E t \in CompSlots : CancelCommandFind(t)
    \/ \E t \in CompSlots : CancelCompetitionGet(t)
    \/ \E t \in CompSlots : CancelCompetitionWrite(t)

\* The bot with two members on record, no competition yet, and its settings.
InitAdmin ==
    /\ RepoInit
    /\ users = RegisteredUsers
    /\ ut = [s \in Slots |-> IdleCall]
    /\ calls = 0
    /\ serial = TRUE
    /\ hist = [adds |-> [id \in UserIds |-> 0], created |-> {}]
    /\ CompInit
    /\ ent \in {Obj("Settings", [ADMIN_ROLE_ID |-> r, ADMIN_USER_IDS |-> us]) :
                 r \in AdminRoleIds, us \in AdminUserIdLists}
    /\ last = [op |-> "none", raised |-> "none",
               user |-> [id |-> 0, roles |-> None], bodies |-> 0]

SpecAdmin == InitAdmin /\ [][AdminNext]_vars

\* The user's id is in the admin-user list, or an admin role id is configured
\* and the user holds that role.
IsAdmin(settings, user) ==
    \/ user.id \in settings.ADMIN_USER_IDS
    \/ /\ settings.ADMIN_ROLE_ID # None
       /\ user.roles # None
       /\ \E r \in settings.ADMIN_ROLE_ID, rs \in user.roles : r \in rs

\* C18: the body of a command wrapped by require_admin executes only if the
\* invoking user is an admin by id or by role; in every other case the body
\* does not execute and no repository or manager state changes. Nothing is
\* written before a body has started.
Thm_C18_AdminGate ==
    /\ [][\A a \in AdminCommandArgs, user \in Invokers :
            (last'.user = user /\ AdminCommand(a, user)) =>
              /\ last'.bodies > last.bodies => IsAdmin(ent.v, user)
              /\ ~IsAdmin(ent.v, user) =>
                   /\ last'.bodies = last.bodies
                   /\ last'.raised # "none"
                   /\ UNCHANGED <<repoVars, userVars, compVars>>]_vars
    /\ [](last.bodies = 0 =>
            /\ comps = << >>
            /\ \A t \in CompSlots : ct[t].pc = "idle")

\* C18: an admin has created a competition, and a member who is not an admin
\* has then been refused.
Wit_C18_Refused ==
    /\ ent.repr = "Settings"
    /\ last.raised = "PermissionError"
    /\ ~IsAdmin(ent.v, last.user)
    /\ last.bodies > 0
    /\ comps # << >>

-----------------------------------------------------------------------------
\* ===== base_repository.py: a repository constructed on a path with no file ==

\* The coroutines that run _write_file: the _initialize_file task that the
\* constructor of the first instance starts with asyncio.create_task (it does
\* not take the lock), a caller's save_data (under the lock of the first
\* instance), and the _initialize_file task of a second instance constructed
\* on the same path.
Writers == {"init", "save", "init2"}

\* A coroutine outside _write_file.
IdleWriter ==
    [pc |-> "idle", data |-> Blank, result |-> "none", handle |-> "none",
     settled |-> FALSE]

\* The documents a caller saves are longer than the default structure.
Long(c) == c.kind = "json" /\ c.body # "default"

\* The content of a file after text new has been written from offset 0 over
\* text old: new when it covers old, else the start of new followed by the
\* rest of old, which does not parse.
Overwrite(old, new) ==
    IF old.kind = "blank" \/ old = new \/ Long(new) THEN new ELSE Garbage

\* _initialize_file: nothing to do when the file exists; else _write_file of
\* the default structure: validation, the stamp and _create_backup (no file to
\* copy) run without suspension.
InitializeFile(t) ==
    /\ t \in {"init", "init2"}
    /\ wr[t].pc = "exists"
    /\ wr' = [wr EXCEPT ![t] =
                IF fs[FilePath].exists
                THEN [IdleWriter EXCEPT !.pc = "done", !.result = "ok"]
                ELSE [IdleWriter EXCEPT !.pc = "open", !.data = DefaultStructure]]
    /\ UNCHANGED <<fs, backups, clock, rd, writes, notRepoVars>>

\* UserRepository(path) is called a second time: its constructor starts its
\* own _initialize_file task.
Construct ==
    /\ wr["init2"].pc = "idle"
    /\ wr' = [wr EXCEPT !["init2"].pc = "exists"]
    /\ UNCHANGED <<fs, backups, clock, rd, writes, notRepoVars>>

\* No _initialize_file task is inside _write_file.
Initialized ==
    \A t \in {"init", "init2"} : wr[t].pc \in {"idle", "exists", "done"}

\* save_data(document) through the first instance: the lock is free.
\* wr["save"].settled records that the file existed and no _initialize_file
\* task was writing when the save began.
FreshSaveData(body) ==
    /\ wr["save"].pc \in {"idle", "done"}
    /\ writes < MaxWrites
    /\ writes' = writes + 1
    /\ wr' = [wr EXCEPT !["save"] =
                [pc |-> IF fs[FilePath].exists THEN "backup" ELSE "open",
                 data |-> Json(body), result |-> "none", handle |-> "none",
                 settled |-> fs[FilePath].exists /\ Initialized]]
    /\ UNCHANGED <<fs, backups, clock, rd, notRepoVars>>

\* await self._create_backup() when the file exists.
FreshBackup ==
    /\ wr["save"].pc = "backup"
    /\ backups' \in CreateBackup(backups)
    /\ wr' = [wr EXCEPT !["save"].pc = "open"]
    /\ UNCHANGED <<fs, clock, rd, writes, notRepoVars>>

\* aiofiles.open(temp_file, 'w'): the file is created, or truncated when
\* another coroutine has it open already; both then hold the same file.
FreshOpen(t) ==
    /\ wr[t].pc = "open"
    /\ fs' = [fs EXCEPT ![TempFile] = File(Blank, clock)]
    /\ wr' = [wr EXCEPT ![t].pc = "write", ![t].handle = TempFile]
    /\ UNCHANGED <<backups, clock, rd, writes, notRepoVars>>

\* file.write(json.dumps(data)): the text is in the buffer of the file object.
FreshWrite(t) ==
    /\ wr[t].pc = "write"
    /\ wr' = [wr EXCEPT ![t].pc = "flush"]
    /\ UNCHANGED <<fs, backups, clock, rd, writes, notRepoVars>>

\* file.flush(): the text is written from offset 0 to the file the coroutine
\* has open, under whatever name that file has now.
FreshFlush(t) ==
    /\ wr[t].pc = "flush"
    /\ fs' = IF wr[t].handle = "unlinked" THEN fs
             ELSE [fs EXCEPT ![wr[t].handle] =
                     File(Overwrite(fs[wr[t].handle].content, wr[t].data),
                          clock)]
    /\ wr' = [wr EXCEPT ![t].pc = "rename"]
    /\ UNCHANGED <<backups, clock, rd, writes, notRepoVars>>

\* temp_file.rename(self.file_path): the file named temp_file becomes
\* file_path, for every coroutine that has it open; with no temp_file the
\* rename raises FileNotFoundError, which _write_file turns into DatabaseError.
FreshRename(t) ==
    /\ wr[t].pc = "rename"
    /\ IF fs[TempFile].exists
       THEN /\ fs' = [f \in {"file_path", "temp_file"} |->
                        IF f = FilePath THEN fs[TempFile] ELSE NoFile]
            /\ wr' = [u \in Writers |->
                        LET h == IF wr[u].handle = TempFile THEN FilePath
                                 ELSE IF wr[u].handle = FilePath THEN "unlinked"
                                 ELSE wr[u].handle
                        IN  IF u = t
                            THEN [wr[u] EXCEPT !.pc = "done", !.result = "ok",
                                               !.handle = "none"]
                            ELSE [wr[u] EXCEPT !.handle = h]]
       ELSE /\ fs' = fs
            /\ wr' = [wr EXCEPT ![t].pc = "done", ![t].result = "DatabaseError",
                                ![t].handle = "none"]
    /\ UNCHANGED <<backups, clock, rd, writes, notRepoVars>>

\* load_data through the first instance (its lock is free) or through the
\* second: _read_file.
FreshLoadData ==
    /\ wr["save"].pc \in {"idle", "done"}
    /\ LET f == fs[FilePath] IN
       IF ~f.exists \/ f.content.kind = "blank"
       THEN /\ rd' = [status |-> "ok", data |-> DefaultStructure, restored |-> FALSE]
            /\ fs' = fs
       ELSE IF Parses(f.content)
       THEN /\ rd' = [status |-> "ok", data |-> f.content, restored |-> FALSE]
            /\ fs' = fs
       ELSE \E r \in RestoreFromBackup :
            /\ fs' = [fs EXCEPT ![FilePath] = r[2]]
            /\ rd' = IF r[1] = Blank
                     THEN [status |-> "DatabaseError", data |-> Blank,
                           restored |-> FALSE]
                     ELSE [status |-> "ok", data |-> r[1], restored |-> TRUE]
    /\ UNCHANGED <<backups, clock, wr, writes, notRepoVars>>

FreshNext ==
    \/ \E t \in Writers : InitializeFile(t)
    \/ Construct
    \/ \E body \in {"docA", "docB"} : FreshSaveData(body)
    \/ FreshBackup
    \/ \E t \in Writers : FreshOpen(t)
    \/ \E t \in Writers : FreshWrite(t)
    \/ \E t \in Writers : FreshFlush(t)
    \/ \E t \in Writers : FreshRename(t)
    \/ FreshLoadData

\* The first instance has just been constructed on a path with no file: its
\* _initialize_file task has been created and has not run yet.
InitFresh ==
    /\ fs = [f \in {"file_path", "temp_file"} |-> NoFile]
    /\ backups = {}
    /\ clock = 0
    /\ wr = [t \in Writers |->
               IF t = "init" THEN [IdleWriter EXCEPT !.pc = "exists"]
               ELSE IdleWriter]
    /\ rd = [status |-> "none", data |-> Blank, restored |-> FALSE]
    /\ writes = 0
    /\ UsersInit
    /\ CompInit
    /\ EntInit

SpecFresh == InitFresh /\ [][FreshNext]_vars

\* C19: after a save of a document completes, a load through the same
\* repository instance or through a new instance opened on the same file
\* returns exactly the saved content.
CE_C19_ReadAfterWrite ==
    [][(FreshLoadData /\ wr["save"].pc = "done" /\ wr["save"].result = "ok")
         => (rd'.status = "ok" /\ rd'.data = wr["save"].data)]_vars

\* C19, for a save begun when the file existed and no _initialize_file task
\* was writing: a load after the completed save returns the saved content.
ReadAfterWriteOnceInitialized ==
    [][(FreshLoadData /\ wr["save"].pc = "done" /\ wr["save"].settled)
         => (/\ wr["save"].result = "ok"
             /\ rd'.status = "ok"
             /\ rd'.data = wr["save"].data)]_vars

-----------------------------------------------------------------------------
\* ============ validators.py: sanitize_input ================================

\* A text is a sequence of tokens: a word (a run of letters or digits) or one
\* other character.
WordTokens ==
    {"Zulrah", "s", "Scales", "Friends", "DROP", "drop", "TABLE", "users",
     "select", "script", "alert", "javascript", "onclick", "iframe", "1"}

CharTokens ==
    {" ", "'", "\"", "\\", ";", "-", "&", "<", ">", "/", "*", ":", "=", "(", ")"}

\* The tokens of the texts enumerated in full.
Alphabet ==
    {"Zulrah", "DROP", "drop", "select", "onclick", "javascript", "script",
     "iframe", " ", "'", ";", "-", "&", "<", ">", "/", "*", ":", "="}

\* re.IGNORECASE, on the words of the model.
TokenLower(t) ==
    CASE t = "DROP" -> "drop"
      [] t = "TABLE" -> "table"
      [] OTHER -> t

\* len(token)
TokenLen(t) ==
    CASE t \in {"drop", "DROP", "&lt;", "&gt;"} -> 4
      [] t \in {"TABLE", "users", "alert", "&amp;"} -> 5
      [] t \in {"Zulrah", "Scales", "select", "script", "iframe"} -> 6
      [] t \in {"Friends", "onclick"} -> 7
      [] t = "javascript" -> 10
      [] OTHER -> 1

RECURSIVE TextLen(_)
TextLen(text) ==
    IF text = << >> THEN 0 ELSE TokenLen(Head(text)) + TextLen(Tail(text))

\* The second SQL pattern without the quotes: r'[;\\]'.
QuoteChars_NoQuotes == {";", "\\"}

\* r'[;\'"\\]'
QuoteChars == {";", "'", "\"", "\\"}

\* r'\b(union|select|insert|update|delete|drop|create|alter|exec|execute)\b'
SqlKeywords ==
    {"union", "select", "insert", "update", "delete", "drop", "create",
     "alter", "exec", "execute"}

\* SQL_INJECTION_PATTERNS: one of the four patterns is found in the text.
\* A keyword matches as a whole word only.
MatchesSql(text) ==
    \/ \E i \in DOMAIN text :
          /\ TokenLower(text[i]) \in SqlKeywords
          /\ i = 1 \/ text[i - 1] \notin WordTokens
          /\ i = Len(text) \/ text[i + 1] \notin WordTokens
    \/ \E i \in DOMAIN text : text[i] \in QuoteChars
    \/ \E i \in 1..(Len(text) - 1) : text[i] = "-" /\ text[i + 1] = "-"
    \/ \E i \in 1..(Len(text) - 1) :
          \/ text[i] = "/" /\ text[i + 1] = "*"
          \/ text[i] = "*" /\ text[i + 1] = "/"

\* r'<tag[^>]*>' found with its '<' at position i: the position of its '>'.
TagEnds(text, tag, i) ==
    IF i + 1 <= Len(text) /\ text[i] = "<" /\ TokenLower(text[i + 1]) = tag
    THEN {k \in (i + 2)..Len(text) :
            text[k] = ">" /\ \A j \in (i + 2)..(k - 1) : text[j] # ">"}
    ELSE {}

\* XSS_PATTERNS: <script[^>]*>.*?</script>, javascript:, on\w+\s*=, <iframe[^>]*>
MatchesXss(text) ==
    \/ \E i \in DOMAIN text : \E k \in TagEnds(text, "script", i) :
          \E m \in (k + 1)..(Len(text) - 3) :
             /\ text[m] = "<" /\ text[m + 1] = "/"
             /\ TokenLower(text[m + 2]) = "script" /\ text[m + 3] = ">"
    \/ \E i \in 1..(Len(text) - 1) :
          TokenLower(text[i]) = "javascript" /\ text[i + 1] = ":"
    \/ \E i \in DOMAIN text : \E e \in (i + 1)..Len(text) :
          /\ TokenLower(text[i]) = "onclick"
          /\ text[e] = "="
          /\ \E w \in i..(e - 1) :
                /\ \A j \in i..w : text[j] \in WordTokens
                /\ \A j \in (w + 1)..(e - 1) : text[j] = " "
    \/ \E i \in DOMAIN text : TagEnds(text, "iframe", i) # {}

\* text.strip(): the text without its leading and trailing blanks.
RECURSIVE LStrip(_)
LStrip(text) ==
    IF text # << >> /\ Head(text) = " " THEN LStrip(Tail(text)) ELSE text

RECURSIVE RStrip(_)
RStrip(text) ==
    IF text # << >> /\ text[Len(text)] = " "
    THEN RStrip(SubSeq(text, 1, Len(text) - 1)) ELSE text

StripText(text) == RStrip(LStrip(text))

\* html.escape(text)
HtmlEscape(text) ==
    [i \in DOMAIN text |->
        CASE text[i] = "&" -> "&amp;"
          [] text[i] = "<" -> "&lt;"
          [] text[i] = ">" -> "&gt;"
          [] text[i] = "\"" -> "&quot;"
          [] text[i] = "'" -> "&#x27;"
          [] OTHER -> text[i]]

\* InputValidator.sanitize_input(text, max_length): what it raises and returns.
SanitizeInput(text, max_length) ==
    IF MatchesSql(text) \/ MatchesXss(text)
    THEN [raised |-> "ValidationError", result |-> << >>]
    ELSE LET sanitized == HtmlEscape(StripText(text))
         IN  IF \E m \in max_length : m # 0 /\ TextLen(sanitized) > m
             THEN [raised |-> "ValidationError", result |-> << >>]
             ELSE [raised |-> "none", result |-> sanitized]

\* The texts of the examples.
SqlFragment ==
    <<"'", ";", " ", "DROP", " ", "TABLE", " ", "users", ";", " ", "-", "-">>

ScriptElement ==
    <<"<", "script", ">", "alert", "(", "1", ")", "<", "/", "script", ">">>

ZulrahsScales ==
    <<"Zulrah", "'", "s", " ", "Scales", " ", "&", " ", "Friends">>

ZulrahScales == <<" ", "Zulrah", " ", "Scales", " ", "&", " ", "Friends", " ">>

\* The texts given to sanitize_input: the examples and every text of at most
\* MaxTokens tokens of the alphabet.
Texts ==
    {SqlFragment, ScriptElement, ZulrahsScales, ZulrahScales}
    \cup UNION {[1..n -> Alphabet] : n \in 0..MaxTokens}

MaxLengthArgs == {None, Some(8)}

\* sanitize_input(text, max_length) on the text held.
Sanitize(max_length) ==
    /\ ent.repr = "str"
    /\ LET r == SanitizeInput(ent.v, max_length)
       IN  last' = [op |-> "sanitize_input", raised |-> r.raised,
                    result |-> r.result, max_length |-> max_length]
    /\ UNCHANGED <<ent, notEntVars>>

SanitizeNext == \E m \in MaxLengthArgs : Sanitize(m)

InitSanitize ==
    /\ RepoInit
    /\ UsersInit
    /\ CompInit
    /\ ent \in {Obj("str", text) : text \in Texts}
    /\ last = [op |-> "none", raised |-> "none", result |-> << >>,
               max_length |-> None]

SpecSanitize == InitSanitize /\ [][SanitizeNext]_vars

\* The call made was sanitize_input without max_length.
Sanitized == last.op = "sanitize_input" /\ last.max_length = None

\* C20 as stated: the ordinary text Zulrah's Scales & Friends is accepted.
CE_C20_ApostropheAccepted ==
    [](Sanitized /\ ent.v = ZulrahsScales => last.raised = "none")

\* Ordinary text: words that are no SQL keyword, blanks and ampersands.
Ordinary(text) ==
    \A i \in DOMAIN text :
       \/ text[i] \in {" ", "&"}
       \/ text[i] \in {"Zulrah", "s", "Scales", "Friends"}

\* C20: sanitize_input raises a validation error for every text that holds a
\* semicolon, a quote, a backslash, --, a comment mark or an SQL keyword as a
\* word, so for the SQL fragment and for Zulrah's Scales & Friends, and for
\* the script element; it accepts ordinary text without these and returns it
\* trimmed and HTML-escaped: Zulrah Scales & Friends comes back as
\* Zulrah Scales &amp; Friends.
Thm_C20_Sanitize ==
    [](Sanitized =>
         /\ (\E i \in DOMAIN ent.v : ent.v[i] \in {";", "'", "\"", "\\"})
               => last.raised = "ValidationError"
         /\ ent.v \in {SqlFragment, ScriptElement, ZulrahsScales}
               => last.raised = "ValidationError"
         /\ Ordinary(ent.v) =>
               /\ last.raised = "none"
               /\ last.result = HtmlEscape(StripText(ent.v))
               /\ last.result = << >> \/
                    (Head(last.result) # " "
                       /\ last.result[Len(last.result)] # " ")
               /\ \A i \in DOMAIN last.result :
                     last.result[i] \notin {"&", "<", ">"}
         /\ ent.v = ZulrahScales =>
               last.result = <<"Zulrah", " ", "Scales", " ", "&amp;", " ",
                               "Friends">>)

\* C20: Zulrah's Scales & Friends has been given to sanitize_input and
\* refused.
Wit_C20_ApostropheRefused ==
    /\ Sanitized
    /\ ent.v = ZulrahsScales
    /\ last.raised = "ValidationError"

-----------------------------------------------------------------------------
\* ===== base_repository.py: the lock of one repository instance =============

\* The coroutines that touch the files of one repository instance: a
\* load_data and a save_data call, verify_integrity, the cleanup_task of the
\* bot (_cleanup_old_backups) and the _initialize_file task of the constructor.
Accessors == {"load_data", "save_data", "verify_integrity", "cleanup_task",
              "_initialize_file"}

\* The coroutine is suspended inside an access to the files: a read of the
\* live file, a backup copy, the write and rename, a removal of backups.
Busy(t) == wr.pc[t] \in {"read", "backup", "write", "prune"}

BusyTasks == {t \in Accessors : Busy(t)}

\* async with self._lock: taken at once when free, else the caller waits.
Enter(t, pc) ==
    IF wr.lock = "free"
    THEN [wr EXCEPT !.lock = t, !.pc[t] = pc]
    ELSE [wr EXCEPT !.pc[t] = "wait"]

\* The first access of a call: load_data reads; save_data copies the live
\* file to a backup when there is one, else goes on to write.
FirstAccess(t) ==
    IF t = "load_data" THEN "read"
    ELSE IF wr.exists THEN "backup" ELSE "write"

\* load_data() or save_data(data) is called.
LockCall(t) ==
    /\ t \in {"load_data", "save_data"}
    /\ wr.pc[t] = "idle"
    /\ wr' = Enter(t, FirstAccess(t))
    /\ UNCHANGED <<fs, backups, clock, rd, writes, notRepoVars>>

\* The lock is released to a waiting caller.
LockAcquire(t) ==
    /\ wr.pc[t] = "wait"
    /\ wr.lock = "free"
    /\ wr' = Enter(t, FirstAccess(t))
    /\ UNCHANGED <<fs, backups, clock, rd, writes, notRepoVars>>

\* _create_backup has copied the live file and pruned: on to the write.
LockBackupDone ==
    /\ wr.pc["save_data"] = "backup"
    /\ wr' = [wr EXCEPT !.pc["save_data"] = "write"]
    /\ UNCHANGED <<fs, backups, clock, rd, writes, notRepoVars>>

\* _read_file or _write_file returns: the lock is released.
LockLeave(t) ==
    /\ t \in {"load_data", "save_data"}
    /\ wr.pc[t] = IF t = "load_data" THEN "read" ELSE "write"
    /\ wr' = [wr EXCEPT !.lock = "free", !.pc[t] = "idle",
                        !.exists = IF t = "save_data" THEN TRUE ELSE @]
    /\ UNCHANGED <<fs, backups, clock, rd, writes, notRepoVars>>

\* verify_integrity(): file_path.exists(), then _read_file, without the lock.
VerifyIntegrity ==
    /\ wr.pc["verify_integrity"] = "idle"
    /\ wr' = [wr EXCEPT !.pc["verify_integrity"] = "read"]
    /\ UNCHANGED <<fs, backups, clock, rd, writes, notRepoVars>>

VerifyIntegrityDone ==
    /\ wr.pc["verify_integrity"] = "read"
    /\ wr' = [wr EXCEPT !.pc["verify_integrity"] = "idle"]
    /\ UNCHANGED <<fs, backups, clock, rd, writes, notRepoVars>>

\* cleanup_task: _cleanup_old_backups lists backup_dir without the lock; it
\* is suspended (aiofiles.os.remove) only when there are backups to remove.
\* rd.during keeps the coroutines that were inside an access at the listing.
CleanupTask(over) ==
    /\ wr.pc["cleanup_task"] = "idle"
    /\ wr' = [wr EXCEPT !.pc["cleanup_task"] = IF over THEN "prune" ELSE "idle"]
    /\ rd' = [op |-> "cleanup_task", during |-> BusyTasks]
    /\ UNCHANGED <<fs, backups, clock, writes, notRepoVars>>

CleanupTaskDone ==
    /\ wr.pc["cleanup_task"] = "prune"
    /\ wr' = [wr EXCEPT !.pc["cleanup_task"] = "idle"]
    /\ UNCHANGED <<fs, backups, clock, rd, writes, notRepoVars>>

\* The _initialize_file task runs: file_path.exists(), and with no file
\* _write_file(default structure), without the lock.
LockInitializeFile ==
    /\ wr.pc["_initialize_file"] = "exists"
    /\ wr' = [wr EXCEPT !.pc["_initialize_file"] =
                           IF wr.exists THEN "done" ELSE "write"]
    /\ rd' = [op |-> "_initialize_file", during |-> BusyTasks]
    /\ UNCHANGED <<fs, backups, clock, writes, notRepoVars>>

LockInitializeFileDone ==
    /\ wr.pc["_initialize_file"] = "write"
    /\ wr' = [wr EXCEPT !.pc["_initialize_file"] = "done", !.exists = TRUE]
    /\ UNCHANGED <<fs, backups, clock, rd, writes, notRepoVars>>

LockNext ==
    \/ \E t \in Accessors : LockCall(t)
    \/ \E t \in Accessors : LockAcquire(t)
    \/ LockBackupDone
    \/ \E t \in Accessors : LockLeave(t)
    \/ VerifyIntegrity
    \/ VerifyIntegrityDone
    \/ \E over \in BOOLEAN : CleanupTask(over)
    \/ CleanupTaskDone
    \/ LockInitializeFile
    \/ LockInitializeFileDone

\* A repository has just been constructed, on a path with or without a file.
InitLock ==
    /\ fs = [f \in {"file_path", "temp_file"} |-> NoFile]
    /\ backups = {}
    /\ clock = 0
    /\ wr \in {[lock |-> "free", exists |-> e,
                pc |-> [t \in Accessors |->
                          IF t = "_initialize_file" THEN "exists" ELSE "idle"]] :
                 e \in BOOLEAN}
    /\ rd = [op |-> "none", during |-> {}]
    /\ writes = 0
    /\ UsersInit
    /\ CompInit
    /\ EntInit

SpecLock == InitLock /\ [][LockNext]_vars

\* C21: at any moment at most one read or write of the repository's files is
\* in progress: live file read, write and rename, backup creation, backup
\* pruning, default-file initialization, integrity check.
CE_C21_MutualExclusion ==
    [](Cardinality(BusyTasks) <= 1 /\ rd.during = {})

\* C21, for load_data and save_data alone: the coroutine inside an access
\* holds the lock, so never both.
LockedMutualExclusion ==
    [](\A t \in {"load_data", "save_data"} : Busy(t) => wr.lock = t)

-----------------------------------------------------------------------------
\* ===== bot.py: competition_monitor, one try around both loops ==============

\* The competitions the pass has still to serve when it stands at position
\* m.i of the list of manager m.mgr: the later ones of that list and those of
\* the later managers, that are pending and due or active and expired.
Remaining(m) ==
    {c.id : c \in {d \in Range(comps) :
        /\ \/ d.status = "pending" /\ now >= d.start_time
           \/ d.status = "active" /\ now >= d.end_time
        /\ \/ \E j \in DOMAIN m.list : j > m.i /\ m.list[j].id = d.id
           \/ \E k \in DOMAIN ManagerTypes : k > m.mgr /\ ManagerTypes[k] = d.type}}

\* The pass is inside start_competition or end_competition.
Transitioning == mon.pc \in {"start_get", "start_write", "end_get", "end_rank"}

\* C22: a failure while starting or ending one competition does not end the
\* pass while competitions of the same pass remain to be checked.
CE_C22_ErrorIsolation ==
    [][(Transitioning /\ mon'.pc = "idle" /\ mon'.result # "ok")
         => Remaining(mon) = {}]_vars

\* C22, second half: after a pass that ended in the except clause the loop
\* fires again.
LaterPassesRun ==
    [](mon.pc = "idle" => ENABLED MonitorList)

-----------------------------------------------------------------------------
\* ===== base_manager.py: the ceiling on pending and active competitions =====

\* Numbers of competitions of the first manager's type already persisted:
\* one below the ceiling and at the ceiling.
PersistedCounts == {max_concurrent_competitions - 1, max_concurrent_competitions}

\* A document of n competitions of the first manager under ids that
\* _generate_competition_id does not produce again: an active one that ends
\* at time 1 and pending ones created at time 0.
Persisted(n) ==
    [i \in 1..n |->
        [id |-> Cardinality(CompIds) + i, type |-> ManagerTypes[1],
         status |-> IF i = 1 THEN "active" ELSE "pending",
         start_time |-> IF i = 1 THEN 0 ELSE RegistrationPeriod,
         end_time |-> IF i = 1 THEN 1 ELSE RegistrationPeriod + 1,
         max_participants |-> 2,
         participants |-> << >>, winners |-> << >>]]

\* The coroutines of the commands that run at the same time.
CeilingSlots == {1, 2}

\* create_competition for either manager by a member on record, and
\* cancel_competition of a persisted pending competition.
CeilingCallArgs ==
    [op : {"create_competition"}, cid : {0}, uid : {1},
     arg : Range(ManagerTypes)]
    \cup [op : {"cancel_competition"}, cid : {Cardinality(CompIds) + 2},
          uid : {0}, arg : {"none"}]

\* A command starts in the free coroutine t while others are running.
CeilingCall(t, a) ==
    /\ ccalls < MaxCeilingCalls
    /\ ct[t].pc \in {"idle", "done"}
    /\ a.op = "create_competition" => nextId + 1 \in CompIds
    /\ ct' = [ct EXCEPT ![t] =
                IF a.op = "create_competition"
                THEN [NewCompCall(a) EXCEPT !.cid = nextId + 1]
                ELSE NewCompCall(a)]
    /\ nextId' = IF a.op = "create_competition" THEN nextId + 1 ELSE nextId
    /\ ccalls' = ccalls + 1
    /\ UNCHANGED <<comps, now, mon, notCompVars>>

\* Time passes.
CeilingTick ==
    /\ now < MaxCeilingNow
    /\ now' = now + 1
    /\ UNCHANGED <<comps, mon, ct, ccalls, nextId, notCompVars>>

CeilingNext ==
    \/ \E t \in CeilingSlots, a \in CeilingCallArgs : CeilingCall(t, a)
    \/ \E t \in CeilingSlots : CreateCompetitionCheck(t)
    \/ \E t \in CeilingSlots : CreateCompetitionLoad(t)
    \/ \E t \in CeilingSlots : CompSaveData(t)
    \/ \E t \in CeilingSlots : CancelCommandFind(t)
    \/ \E t \in CeilingSlots : CancelCompetitionGet(t)
    \/ \E t \in CeilingSlots : CancelCompetitionWrite(t)
    \/ CeilingTick
    \/ MonitorList
    \/ StartCompetitionGet
    \/ StartCompetitionWrite
    \/ EndCompetitionGet
    \/ EndCompetitionRank

\* The bot with its members on record and the first manager at its ceiling
\* or one below.
InitCeiling ==
    /\ RepoInit
    /\ users = RegisteredUsers
    /\ ut = [s \in Slots |-> IdleCall]
    /\ calls = 0
    /\ serial = TRUE
    /\ hist = [adds |-> [id \in UserIds |-> 0], created |-> {}]
    /\ comps \in {Persisted(n) : n \in PersistedCounts}
    /\ now = 0
    /\ mon = IdleMonitor
    /\ ct = [s \in CeilingSlots |-> IdleCompCall]
    /\ ccalls = 0
    /\ nextId = 0
    /\ EntInit

SpecCeiling == InitCeiling /\ [][CeilingNext]_vars

\* C23: for each manager the number of persisted competitions of its type
\* with status pending or active never exceeds max_concurrent_competitions.
CE_C23_Ceiling ==
    \A k \in DOMAIN ManagerTypes :
        Len(GetActiveCompetitions(comps, ManagerTypes[k]))
            <= max_concurrent_competitions

\* C23, second half: a creation whose count finds the ceiling reached fails
\* with CompetitionError and persists nothing.
RefusedAtCeiling ==
    [][\A t \in CeilingSlots :
         (/\ ct[t].pc = "cc_check"
          /\ ct'[t].pc # "cc_check"
          /\ HasUser(users, ct[t].uid)
          /\ Len(GetActiveCompetitions(comps, ct[t].arg))
                >= max_concurrent_competitions)
         => /\ ct'[t].pc = "done"
            /\ ct'[t].result = "CompetitionError"
            /\ comps' = comps]_vars

\* C23, without overlap: a creation that runs from its count to its save with
\* no other write in between leaves the count within the ceiling.
CeilingWhenUndisturbed ==
    [][\A t \in CeilingSlots :
         (/\ ct[t].pc = "save"
          /\ ct'[t].pc = "done"
          /\ ct[t].op = "create_competition"
          /\ ct[t].data = PutComp(comps, ct[t].obj.v)
          /\ Len(GetActiveCompetitions(comps, ct[t].arg))
                < max_concurrent_competitions)
         => Len(GetActiveCompetitions(comps', ct[t].arg))
                <= max_concurrent_competitions]_vars

-----------------------------------------------------------------------------
\* ===== competition_repository.py, base_manager.py: metadata.active_competitions

\* The ids competitions are created under.
CounterIds == {1, 2}

\* data["metadata"] of the competitions document.
Metadata(total, active) ==
    Obj("metadata", [total_competitions |-> total, active_competitions |-> active])

\* The number _update_active_count stores: the entries of the document whose
\* status is pending or active.
ActiveCount(doc) ==
    Len(SelectSeq(doc, LAMBDA c : c.status \in {"pending", "active"}))

\* _update_active_count(data)
UpdateActiveCount(md, doc) ==
    [md EXCEPT !.v.active_competitions = ActiveCount(doc)]

\* data["metadata"]["total_competitions"] = len(data["competitions"])
UpdateTotal(md, doc) == [md EXCEPT !.v.total_competitions = Len(doc)]

\* del data["competitions"][competition_id]
DelComp(doc, id) == SelectSeq(doc, LAMBDA c : c.id # id)

\* One operation, from its call to its return: the document data with the
\* metadata md goes through _write_file, or the operation raised before any
\* write. The persisted document changes only when nothing is raised.
Complete(op, raised, data, md) ==
    LET r == IF raised # "none" THEN raised ELSE WriteFile(data) IN
    /\ ccalls < MaxCounterCalls
    /\ ccalls' = ccalls + 1
    /\ comps' = IF r = "ok" THEN data ELSE comps
    /\ ent' = IF r = "ok" THEN md ELSE ent
    /\ last' = [op |-> op, result |-> r]
    /\ UNCHANGED <<now, mon, ct, nextId, repoVars, userVars>>

\* An operation that returns without a write.
Return(op) == Complete(op, "returned", comps, ent)

\* CompetitionRepository.create_competition(competition)
RepoCreateCompetition(id, type) ==
    LET data == PutComp(comps, NewCompetition(id, type, 1, 2)) IN
    Complete("create_competition",
             IF HasComp(comps, id) THEN "CompetitionError" ELSE "none",
             data, UpdateActiveCount(UpdateTotal(ent, data), data))

\* CompetitionRepository.update_competition(competition)
RepoUpdateCompetition(op, raised, c) ==
    LET data == PutComp(comps, c) IN
    Complete(op, raised, data, UpdateActiveCount(ent, data))

\* CompetitionRepository.update_competition_status(id, new_status)
RepoUpdateCompetitionStatus(id, new) ==
    IF ~HasComp(comps, id)
    THEN Complete("update_competition_status", "CompetitionNotFoundError",
                  comps, ent)
    ELSE LET c == GetComp(comps, id) IN
         RepoUpdateCompetition("update_competition_status", "none",
            [c EXCEPT
               !.status = new,
               !.start_time = IF new = "active" /\ c.status = "pending"
                              THEN now ELSE @,
               !.end_time = IF new = "completed" THEN now ELSE @])

\* CompetitionRepository.add_participant(id, user_id)
RepoAddParticipant(id, uid) ==
    IF ~HasComp(comps, id)
    THEN Complete("add_participant", "CompetitionNotFoundError", comps, ent)
    ELSE LET r == EntityAddParticipant(GetComp(comps, id), uid) IN
         RepoUpdateCompetition("add_participant", r.raised, r.comp)

\* CompetitionRepository.remove_participant(id, user_id): nothing is written
\* when the user was no participant.
RepoRemoveParticipant(id, uid) ==
    IF ~HasComp(comps, id)
    THEN Complete("remove_participant", "CompetitionNotFoundError", comps, ent)
    ELSE LET c == GetComp(comps, id) IN
         IF ~IsParticipant(c, uid)
         THEN Return("remove_participant")
         ELSE RepoUpdateCompetition("remove_participant", "none",
                                    EntityRemoveParticipant(c, uid))

\* CompetitionRepository.delete_competition(id)
RepoDeleteCompetition(id) ==
    IF ~HasComp(comps, id)
    THEN Return("delete_competition")
    ELSE LET data == DelComp(comps, id) IN
         Complete("delete_competition", "none", data,
                  UpdateActiveCount(UpdateTotal(ent, data), data))

\* _create_base_competition: the document is loaded, given the new entry and
\* saved; its metadata is what was loaded.
ManagerCreate(id, type) ==
    Complete("_create_base_competition",
             IF ActiveCount(SelectSeq(comps, LAMBDA c : c.type = type))
                   >= max_concurrent_competitions
             THEN "CompetitionError" ELSE "none",
             PutComp(comps, NewCompetition(id, type, 1, 2)), ent)

\* start_competition: update_field("competitions.<id>", competition)
ManagerStart(id) ==
    IF ~HasComp(comps, id)
    THEN Complete("start_competition", "CompetitionNotFoundError", comps, ent)
    ELSE LET c == GetComp(comps, id) IN
         Complete("start_competition",
                  IF c.status # "pending" THEN "CompetitionError" ELSE "none",
                  PutComp(comps, [c EXCEPT !.status = "active",
                                           !.start_time = now]),
                  ent)

\* end_competition: calculate_rankings raises on the dict get_competition
\* returns, before anything is written.
ManagerEnd(id) ==
    IF ~HasComp(comps, id)
    THEN Complete("end_competition", "CompetitionNotFoundError", comps, ent)
    ELSE LET c == GetComp(comps, id) IN
         Complete("end_competition",
                  IF c.status \notin {"active", "paused"} THEN "CompetitionError"
                  ELSE IF ~HasAttr(Obj("dict", c)) THEN "AttributeError"
                  ELSE "none",
                  PutComp(comps, [c EXCEPT
                      !.status = "completed", !.end_time = now,
                      !.winners = TopThree(CalculateRankings(c))]),
                  ent)

\* cancel_competition: update_field("competitions.<id>", competition)
ManagerCancel(id) ==
    IF ~HasComp(comps, id)
    THEN Complete("cancel_competition", "CompetitionNotFoundError", comps, ent)
    ELSE Complete("cancel_competition", "none",
                  PutComp(comps, [GetComp(comps, id) EXCEPT
                                     !.status = "cancelled"]),
                  ent)

RepositoryOps == {"create_competition", "update_competition_status",
                  "add_participant", "remove_participant", "delete_competition"}

CounterNext ==
    \/ \E id \in CounterIds, type \in Range(ManagerTypes) :
          RepoCreateCompetition(id, type)
    \/ \E id \in CounterIds, new \in {"active", "completed", "cancelled"} :
          RepoUpdateCompetitionStatus(id, new)
    \/ \E id \in CounterIds, uid \in Members : RepoAddParticipant(id, uid)
    \/ \E id \in CounterIds, uid \in Members : RepoRemoveParticipant(id, uid)
    \/ \E id \in CounterIds : RepoDeleteCompetition(id)
    \/ \E id \in CounterIds, type \in Range(ManagerTypes) :
          ~HasComp(comps, id) /\ ManagerCreate(id, type)
    \/ \E id \in CounterIds : ManagerStart(id)
    \/ \E id \in CounterIds : ManagerEnd(id)
    \/ \E id \in CounterIds : ManagerCancel(id)
    \/ Tick

\* The default structure: no competition, both counts 0.
InitCounter ==
    /\ RepoInit
    /\ UsersInit
    /\ CompInit
    /\ ent = Metadata(0, 0)
    /\ last = [op |-> "none", result |-> "none"]

SpecCounter == InitCounter /\ [][CounterNext]_vars

\* C24: after every completed mutating operation on the competitions
\* dataset, metadata.active_competitions of the persisted document equals
\* the number of persisted competitions whose status is pending or active.
CE_C24_ActiveCount ==
    ent.v.active_competitions = ActiveCount(comps)

\* C24, for the repository's operations: each of them that writes leaves the
\* stored count equal to the number of pending and active competitions.
RepositoryRecounts ==
    [][(ccalls' # ccalls /\ last'.op \in RepositoryOps /\ last'.result = "ok")
         => ent'.v.active_competitions = ActiveCount(comps')]_vars

-----------------------------------------------------------------------------
\* ===== base_repository.py, competition_repository.py: refused writes =======

\* A competition entry of a document handed to save_data.
Entry(start, end, maxp, participants, winners) ==
    [id |-> 1, type |-> ManagerTypes[1], status |-> "pending",
     start_time |-> start, end_time |-> end, max_participants |-> maxp,
     participants |-> participants, winners |-> winners]

\* Documents a caller hands to the competition repository, by name: two that
\* pass the validator, and one for each way of failing it.
CompDocuments ==
    [pending |-> <<Entry(1, 2, 2, << >>, << >>)>>,
     empty |-> << >>,
     start_at_end |-> <<Entry(2, 2, 2, << >>, << >>)>>,
     start_after_end |-> <<Entry(1, 2, 2, << >>, << >>),
                           Entry(2, 1, 2, << >>, << >>)>>,
     over_capacity |-> <<Entry(1, 2, 2, <<1, 2, 3>>, << >>)>>,
     winner_no_participant |-> <<Entry(1, 2, 2, << >>, <<1>>)>>,
     capacity_one |-> <<Entry(1, 2, 1, << >>, << >>)>>]

\* CompetitionRepository._validate_data on the named document.
ValidateCompetitionData(body) == ValidateCompetitions(CompDocuments[body])

\* save_data -> _write_file of the competition repository, up to the metadata
\* stamp: a document that fails _validate_data raises ValidationError before
\* the backup is made.
CompetitionSaveData(body) ==
    /\ wr.pc = "idle"
    /\ writes < MaxWrites
    /\ writes' = writes + 1
    /\ IF ValidateCompetitionData(body)
       THEN wr' = [pc |-> "backup", data |-> Json(body), result |-> "none"]
       ELSE wr' = [pc |-> "idle", data |-> Blank, result |-> "ValidationError"]
    /\ UNCHANGED <<fs, backups, clock, rd, notRepoVars>>

WriteNext ==
    \/ \E body \in DOMAIN CompDocuments : CompetitionSaveData(body)
    \/ WriteBackup
    \/ WriteOpenTemp
    \/ WritePartial
    \/ WriteFlush
    \/ WriteRename
    \/ TickClock

SpecWrite == Init /\ [][WriteNext]_vars

\* The structural conditions on a document: every competition starts before
\* it ends, has no more participants than max_participants, and its winners
\* are participants.
StructurallyValid(doc) ==
    \A i \in DOMAIN doc :
        /\ doc[i].start_time < doc[i].end_time
        /\ Len(doc[i].participants) <= doc[i].max_participants
        /\ \A w \in Range(doc[i].winners) : w \in Range(doc[i].participants)

\* C25: a write of a document that fails the structural validator raises a
\* validation error and leaves the live file, the backups and the temporary
\* file untouched; the live file never holds such a document.
Thm_C25_InvalidWriteRefused ==
    /\ [](fs[FilePath].exists /\ fs[FilePath].content.kind = "json"
             => StructurallyValid(CompDocuments[fs[FilePath].content.body]))
    /\ [][\A body \in DOMAIN CompDocuments :
            (~StructurallyValid(CompDocuments[body]) /\ CompetitionSaveData(body))
            => /\ wr'.result = "ValidationError"
               /\ wr'.pc = "idle"
               /\ fs' = fs
               /\ backups' = backups]_vars

\* C25 witness: a write has been refused with a validation error while the
\* live file and a backup of it exist.
Wit_C25_RefusedOnExistingFile ==
    /\ wr.result = "ValidationError"
    /\ fs[FilePath].exists
    /\ backups # {}

-----------------------------------------------------------------------------
\* ===== base_repository.py: backup retention ================================

\* Number of backups left by earlier runs of the bot: the first write of this
\* run fills the directory, the later ones prune.
EarlierBackupCounts == {max_backups - 1}

\* The backups of n earlier writes, one a second, the last one second before
\* the bot starts; each carries the mtime of the file it was copied from.
EarlierBackups(n) ==
    {[name |-> 0 - i, content |-> Json("docA"), mtime |-> 0 - i - 1] : i \in 1..n}

\* The repository is constructed over the files of earlier runs.
InitRetention ==
    /\ \E n \in EarlierBackupCounts : backups = EarlierBackups(n)
    /\ fs = [f \in {"file_path", "temp_file"} |->
                IF f = FilePath THEN File(Json("docB"), 0 - 1) ELSE NoFile]
    /\ clock = 0
    /\ wr = [pc |-> "idle", data |-> Blank, result |-> "none"]
    /\ rd = [status |-> "none", data |-> Blank, restored |-> FALSE]
    /\ writes = 0
    /\ UsersInit
    /\ CompInit
    /\ EntInit

\* The steps of SpecRepo, every write being of the same valid document.
RetentionNext ==
    \/ SaveData("docA")
    \/ WriteBackup
    \/ WriteOpenTemp
    \/ WritePartial
    \/ WriteFlush
    \/ WriteRename
    \/ Crash
    \/ LoadData
    \/ CorruptFile
    \/ TickClock

SpecRetention == InitRetention /\ [][RetentionNext]_vars

\* The backup files after the copy of _create_backup and before the pruning.
BeforePruning ==
    {b \in backups : b.name # clock}
        \cup {[name |-> clock, content |-> fs[FilePath].content,
               mtime |-> fs[FilePath].mtime]}

\* C26: after every completed write the number of backup files is at most
\* max_backups, and the backup step of a write keeps, of the files that exist
\* after its copy, the most recently modified ones.
Thm_C26_BackupRetention ==
    /\ [](Cardinality(backups) <= max_backups)
    /\ [][(wr.pc = "backup" /\ wr'.pc = "open" /\ fs[FilePath].exists)
            => /\ backups' \subseteq BeforePruning
               /\ Cardinality(backups') =
                     IF Cardinality(BeforePruning) <= max_backups
                     THEN Cardinality(BeforePruning) ELSE max_backups
               /\ \A k \in backups', d \in BeforePruning \ backups' :
                     k.mtime >= d.mtime]_vars

\* C26 witness: a write has completed whose backup made an eleventh file, and
\* the oldest backup is gone.
Wit_C26_OldestPruned ==
    /\ wr.result = "ok"
    /\ Cardinality(backups) = max_backups
    /\ \E b \in backups : b.name >= 0
    /\ \A b \in backups : b.mtime > 0 - max_backups - 1

-----------------------------------------------------------------------------
\* ===== participant_commands.py: leave_competition and the status ===========

\* The competitions document the bot is started over: one competition whose
\* only participant is member 1, pending (created at time 0) or active.
LeaveDocuments ==
    {<<[NewCompetition(1, ManagerTypes[1], 1, 2) EXCEPT
            !.participants = <<1>>,
            !.status = st,
            !.start_time = IF st = "active" THEN 0 ELSE @]>> :
        st \in {"pending", "active"}}

InitLeave ==
    /\ RepoInit
    /\ users = RegisteredUsers
    /\ ut = [s \in Slots |-> IdleCall]
    /\ calls = 0
    /\ serial = TRUE
    /\ hist = [adds |-> [id \in UserIds |-> 0], created |-> {}]
    /\ now = 0
    /\ comps \in LeaveDocuments
    /\ mon = IdleMonitor
    /\ ct = [s \in CompSlots |-> IdleCompCall]
    /\ ccalls = 0
    /\ nextId = 1
    /\ EntInit

SpecLeave == InitLeave /\ [][CompNext]_vars

\* The member of coroutine t is a persisted participant of its competition,
\* and the persisted status of that competition is active.
RegisteredInActive(doc, t) ==
    /\ HasComp(doc, ct[t].cid)
    /\ GetComp(doc, ct[t].cid).status = "active"
    /\ IsParticipant(GetComp(doc, ct[t].cid), ct[t].uid)

NeverActiveAfterCheck ==
    [](\A t \in CompSlots :
          (ct[t].op = "leave_competition"
             /\ ct[t].pc \in {"rm_get", "uc_load", "save"})
          => ~RegisteredInActive(comps, t))

-----------------------------------------------------------------------------
\* ===== participant_commands.py: join_competition and the linked account ====

\* The member has no linked OSRS username: no record, or a record whose
\* osrs_username is None (after unlink_account).
NotLinked(uid) ==
    \/ ~HasUser(users, uid)
    \/ GetUser(users, uid).osrs_username = NoName

\* C28: join_competition by a member without a linked OSRS username stops
\* with the link-your-account failure, before the competition is looked up.
CE_C28_LinkRequired ==
    [][\A t \in CompSlots :
         (ct[t].pc = "jn_find" /\ ct'[t] # ct[t] /\ NotLinked(ct[t].uid))
         => ct'[t].pc = "done" /\ ct'[t].result = "link first"]_vars

\* C28, for a member without a user record: the command stops with the
\* link-your-account failure.
NoRecordRefused ==
    [][\A t \in CompSlots :
         (ct[t].pc = "jn_find" /\ ct'[t] # ct[t] /\ ~HasUser(users, ct[t].uid))
         => ct'[t].pc = "done" /\ ct'[t].result = "link first"]_vars

-----------------------------------------------------------------------------
\* ===== decorators.py, bot.py: the command extensions and their middleware ==

\* _load_extensions: the extensions in the order they are loaded.
Extensions ==
    <<"commands.admin_commands", "commands.participant_commands",
      "commands.view_commands">>

\* The decorators under app_commands.command of the commands of an extension,
\* outermost first.
Decorators(ext) ==
    IF ext = "commands.admin_commands"
    THEN <<"require_admin", "handle_errors", "defer_response", "log_command_usage">>
    ELSE <<"handle_errors", "defer_response", "rate_limit", "log_command_usage">>

\* The commands an extension defines (two of each).
Commands(ext) ==
    CASE ext = "commands.admin_commands" -> {"create_competition", "bot_stats"}
      [] ext = "commands.participant_commands" -> {"join_competition", "leave_competition"}
      [] ext = "commands.view_commands" -> {"competitions", "leaderboard"}

\* rate_limit(calls, period): its first statement builds CommandRateLimiter,
\* a name core/decorators.py neither defines nor imports. What the call raises.
RateLimit == "NameError"

\* An extension is imported: the class body applies the decorators of every
\* command. What the import raises.
ImportExtension(ext) ==
    IF "rate_limit" \in Range(Decorators(ext)) THEN RateLimit ELSE "none"

\* An interaction nobody has answered, and the run of a command on it: whether
\* the interaction is acknowledged, the messages sent, what is being raised and
\* whether the command body was called.
NewInteraction == [done |-> FALSE, sent |-> << >>, raised |-> "none", body |-> FALSE]

Raise(r, e) == [r EXCEPT !.raised = e]

\* interaction.response.send_message: the library raises InteractionResponded
\* on an interaction that is acknowledged already; fails stands for a
\* failure of the request.
ResponseSendMessage(r, text, fails) ==
    IF r.done THEN Raise(r, "InteractionResponded")
    ELSE IF fails THEN Raise(r, "HTTPException")
    ELSE [r EXCEPT !.done = TRUE,
                   !.sent = Append(@, [via |-> "response", text |-> text])]

\* interaction.followup.send
FollowupSend(r, text, fails) ==
    IF fails THEN Raise(r, "HTTPException")
    ELSE [r EXCEPT !.sent = Append(@, [via |-> "followup", text |-> text])]

\* defer_response, up to the call of the wrapped function.
DeferResponse(r, fails) ==
    IF r.done THEN r
    ELSE IF fails THEN Raise(r, "HTTPException")
    ELSE [r EXCEPT !.done = TRUE]

\* What the command bodies do: nothing or a follow-up message, and then return
\* or raise a domain error or another error.
BodyRuns == [replies : BOOLEAN, raises : {"none", "CompetitionError", "ValueError"}]

\* log_command_usage around the command body: the error is logged and raised
\* again.
Body(r, b) ==
    LET s == IF b.replies THEN FollowupSend(r, "reply", FALSE) ELSE r
    IN [s EXCEPT !.body = TRUE, !.raised = b.raises]

\* The errors that derive from OSRSBotException.
DomainErrors == {"CompetitionError", "PermissionError"}

\* A handle_errors that lets a failure of its own message escape.
HandleErrors_SendUnguarded(r, fails) ==
    IF r.raised = "none" THEN r
    ELSE LET text == IF r.raised \in DomainErrors
                     THEN "user_message" ELSE "unexpected error"
             c == Raise(r, "none")
         IN IF c.done THEN FollowupSend(c, text, fails)
            ELSE ResponseSendMessage(c, text, fails)

\* handle_errors, after the wrapped function has returned or raised (r): the
\* error is logged and told to the user, as a follow-up when the interaction
\* is acknowledged and as the response otherwise; a failure of that message
\* is logged.
HandleErrors(r, fails) ==
    IF r.raised = "none" THEN r
    ELSE LET text == IF r.raised \in DomainErrors
                     THEN "user_message" ELSE "unexpected error"
             c == Raise(r, "none")
             s == IF c.done THEN FollowupSend(c, text, fails)
                  ELSE ResponseSendMessage(c, text, fails)
         IN IF s.raised = "none" THEN s ELSE c

\* defer_response(log_command_usage(body)) of the admin commands.
Deferred(b, deferFails) ==
    LET d == DeferResponse(NewInteraction, deferFails)
    IN IF d.raised # "none" THEN d ELSE Body(d, b)

\* The wrapper of rate_limit and what it wraps, called by defer_response.
RateLimited(allowed, b, deferFails, fails) ==
    LET d == DeferResponse(NewInteraction, deferFails)
    IN IF d.raised # "none" THEN d
       ELSE IF ~allowed THEN ResponseSendMessage(d, "too quickly", fails)
       ELSE Body(d, b)

\* bot.settings of this deployment.
PipelineSettings ==
    Obj("Settings", [ADMIN_ROLE_ID |-> Some(7), ADMIN_USER_IDS |-> {1}])

NoRun == [op |-> "none", name |-> "none", user |-> 0, entered |-> FALSE,
          fails |-> FALSE, inner |-> NewInteraction, outer |-> NewInteraction]

\* load_extension of the next extension: a failure is logged and the
\* extension's commands are not added to the tree.
LoadExtension ==
    /\ ent.v.next <= Len(Extensions)
    /\ LET ext == Extensions[ent.v.next]
           e == ImportExtension(ext)
       IN /\ ent' = [ent EXCEPT
                       !.v.next = @ + 1,
                       !.v.tree = IF e = "none" THEN @ \cup Commands(ext) ELSE @]
          /\ last' = [NoRun EXCEPT !.op = "load_extension", !.name = ext,
                                   !.outer = Raise(NewInteraction, e)]
    /\ UNCHANGED <<repoVars, userVars, compVars>>

\* The extension that defines a command.
ExtensionOf(name) == CHOOSE ext \in Range(Extensions) : name \in Commands(ext)

\* A user invokes a command of the tree: the decorators of its extension run
\* from the outermost inwards. allowed is the rate limiter's answer where the
\* command has one.
InvokeCommand(name, user, allowed, b, deferFails, fails) ==
    /\ name \in ent.v.tree
    /\ LET ds == Decorators(ExtensionOf(name))
           a == IF ds[1] = "require_admin"
                THEN RequireAdmin(PipelineSettings.v, user) ELSE "call"
           inner == IF "rate_limit" \in Range(ds)
                    THEN RateLimited(allowed, b, deferFails, fails)
                    ELSE Deferred(b, deferFails)
       IN last' = IF a # "call"
                  THEN [NoRun EXCEPT !.op = "command", !.name = name,
                                     !.user = user.id,
                                     !.outer = Raise(NewInteraction, a)]
                  ELSE [op |-> IF "rate_limit" \in Range(ds) /\ ~allowed
                               THEN "over the limit" ELSE "command",
                        name |-> name, user |-> user.id,
                        entered |-> TRUE, fails |-> fails, inner |-> inner,
                        outer |-> HandleErrors(inner, fails)]
    /\ UNCHANGED <<ent, repoVars, userVars, compVars>>

PipelineNext ==
    \/ LoadExtension
    \/ \E ext \in Range(Extensions), user \in Invokers, allowed \in BOOLEAN,
          b \in BodyRuns, deferFails \in BOOLEAN, fails \in BOOLEAN :
          \E name \in Commands(ext) :
             InvokeCommand(name, user, allowed, b, deferFails, fails)

\* The bot before setup_hook loads the extensions.
InitPipeline ==
    /\ RepoInit
    /\ UsersInit
    /\ CompInit
    /\ ent = Obj("CommandTree", [next |-> 1, tree |-> {}])
    /\ last = NoRun

SpecPipeline == InitPipeline /\ [][PipelineNext]_vars

\* C29: the commands that apply rate_limit are in the command tree once the
\* extensions are loaded, and an invocation over the limit leaves the command
\* body uncalled and is answered, as the response to the interaction, with the
\* "using commands too quickly" message.
CE_C29_RateLimitRejection ==
    /\ [](ent.v.next > Len(Extensions) =>
             \A i \in DOMAIN Extensions :
                "rate_limit" \in Range(Decorators(Extensions[i]))
                   => Commands(Extensions[i]) \subseteq ent.v.tree)
    /\ [](last.op = "over the limit" =>
             /\ ~last.outer.body
             /\ last.outer.sent = <<[via |-> "response", text |-> "too quickly"]>>)

\* Loading an extension whose commands apply rate_limit raises NameError and
\* no command that applies rate_limit is ever invoked.
RateLimitedNeverLoaded ==
    /\ [](last.op = "load_extension" /\ last.name # "commands.admin_commands"
             => last.outer.raised = "NameError")
    /\ [](\A name \in ent.v.tree : name \in Commands("commands.admin_commands"))
    /\ [](last.op # "over the limit")

\* C30: whatever the wrapped function raises and whether or not the message
\* to the user fails, handle_errors returns without raising; the message goes
\* out as a follow-up on an acknowledged interaction and as the response
\* otherwise, and nothing more is sent when it fails.
Thm_C30_TotalCatchBoundary ==
    (last.op = "command" /\ last.entered) =>
        /\ last.outer.raised = "none"
        /\ last.inner.raised = "none" => last.outer = last.inner
        /\ (last.inner.raised # "none" /\ ~last.fails) =>
              /\ Len(last.outer.sent) = Len(last.inner.sent) + 1
              /\ last.outer.sent[Len(last.outer.sent)].via =
                    IF last.inner.done THEN "followup" ELSE "response"
        /\ (last.inner.raised # "none" /\ last.fails) =>
              last.outer.sent = last.inner.sent

\* The body raised on an acknowledged interaction, the follow-up failed and
\* the wrapper returned.
Wit_C30_SendFailureSwallowed ==
    /\ last.op = "command" /\ last.entered /\ last.fails
    /\ last.inner.body /\ last.inner.done
    /\ last.inner.raised \in {"CompetitionError", "ValueError"}
    /\ last.outer.raised = "none"

\* The deferral failed, so the error is told as the response.
ErrorAsInitialResponse ==
    /\ last.op = "command" /\ last.entered /\ ~last.fails
    /\ ~last.inner.done /\ last.inner.raised = "HTTPException"
    /\ last.outer.sent = <<[via |-> "response", text |-> "unexpected error"]>>

-----------------------------------------------------------------------------
\* ===== leaderboard_repository.py: the collection stored in leaderboards.json

\* The leaderboards of the documents looked at, by key, and the competition
\* types passed in ("custom" has no leaderboard of its own).
AllTimeKeys == {"participation", "all_time_wins", "trivia_competitions"}

AllTimeTypes == {"trivia", "custom"}

\* type_leaderboard_map of update_all_time_leaderboards, for those types.
TypeLeaderboard(type) == IF type = "trivia" THEN "trivia_competitions" ELSE "none"

AllTimeUsers == {1, 2}

\* A leaderboard of the collection that is missing, and one with entries.
NoLeaderboard == [present |-> FALSE, entries |-> << >>]

StoredLeaderboard(es) == [present |-> TRUE, entries |-> es]

\* entry.score of get_entry(user_id), 0 where there is none.
ScoreOf(lb, uid) ==
    LET hits == {i \in DOMAIN lb.entries : lb.entries[i].user_id = uid} IN
    IF hits = {} THEN 0
    ELSE lb.entries[CHOOSE i \in hits : \A j \in hits : i <= j].score

\* The achievement ids check_and_award_achievements awards for the values
\* passed, in the order it tests them.
DueAchievements(wins, total) ==
    (IF wins = 1 THEN <<"first_win">> ELSE << >>)
    \o (CASE total = 10 -> <<"participation_10">>
           [] total = 25 -> <<"participation_25">>
           [] total = 50 -> <<"participation_50">>
           [] total = 100 -> <<"participation_100">>
           [] OTHER -> << >>)
    \o (CASE wins = 5 -> <<"multiple_wins_5">>
           [] wins = 10 -> <<"multiple_wins_10">>
           [] wins = 25 -> <<"multiple_wins_25">>
           [] wins = 50 -> <<"multiple_wins_50">>
           [] OTHER -> << >>)

\* LeaderboardCollection.to_dict: the keys of the dictionary it returns.
CollectionToDictKeys == {"leaderboards", "user_achievements", "achievement_definitions"}

\* save_leaderboard_collection(collection): data = collection.to_dict(), then
\* the assignment to data["metadata"]["total_leaderboards"] and save_data.
\* What it raises, and the stored document afterwards.
SaveLeaderboardCollection(stored, collection) ==
    IF "metadata" \notin CollectionToDictKeys
    THEN [raised |-> "KeyError", doc |-> stored]
    ELSE [raised |-> "none", doc |-> collection]

\* collection.update_user_score on the collection c: the leaderboard is
\* created where it is missing.
CollectionUpdateUserScore(c, key, uid, score) ==
    LET r == AddOrUpdateEntry(c.doc.leaderboards[key].entries, uid, score) IN
    [raised |-> r.raised,
     doc |-> [c.doc EXCEPT !.leaderboards[key] = StoredLeaderboard(r.entries)]]

\* The score of the user goes up by one on a leaderboard of the collection c;
\* nothing happens once something was raised.
BumpScore(c, key, uid) ==
    IF c.raised # "none" THEN c
    ELSE CollectionUpdateUserScore(c, key, uid,
                                   ScoreOf(c.doc.leaderboards[key], uid) + 1)

\* update_all_time_leaderboards(user_id, competition_type, won)
UpdateAllTimeLeaderboards(uid, type, won) ==
    /\ ent.repr = "leaderboards.json"
    /\ LET c0 == [raised |-> "none", doc |-> ent.v]
           c1 == BumpScore(c0, "participation", uid)
           c2 == IF won THEN BumpScore(c1, "all_time_wins", uid) ELSE c1
           c3 == IF won /\ TypeLeaderboard(type) # "none"
                 THEN BumpScore(c2, TypeLeaderboard(type), uid) ELSE c2
           s == IF c3.raised # "none" THEN [raised |-> c3.raised, doc |-> ent.v]
                ELSE SaveLeaderboardCollection(ent.v, c3.doc)
       IN /\ ent' = Obj("leaderboards.json", s.doc)
          /\ last' = [op |-> "update_all_time_leaderboards", raised |-> s.raised,
                      user |-> uid, result |-> << >>]
    /\ UNCHANGED notEntVars

\* award_achievement(user_id, achievement_id, ...) of the repository on the
\* stored document: what it raises, whether it awarded, the document stored.
RepoAwardAchievement(stored, uid, id) ==
    IF id \in Range(stored.user_achievements[uid])
    THEN [raised |-> "none", awarded |-> FALSE, doc |-> stored]
    ELSE LET s == SaveLeaderboardCollection(stored,
                     [stored EXCEPT !.user_achievements[uid] = Append(@, id)])
         IN [raised |-> s.raised, awarded |-> s.raised = "none", doc |-> s.doc]

\* The loop of check_and_award_achievements over the achievements due.
RECURSIVE AwardAll(_, _, _)
AwardAll(stored, uid, ids) ==
    IF ids = << >> THEN [raised |-> "none", awarded |-> << >>, doc |-> stored]
    ELSE LET a == RepoAwardAchievement(stored, uid, Head(ids)) IN
         IF a.raised # "none"
         THEN [raised |-> a.raised, awarded |-> << >>, doc |-> a.doc]
         ELSE LET rest == AwardAll(a.doc, uid, Tail(ids)) IN
              [rest EXCEPT !.awarded =
                  (IF a.awarded THEN <<Head(ids)>> ELSE << >>) \o @]

\* check_and_award_achievements(user_id, wins, total_competitions)
CheckAndAwardAchievements(uid, wins, total) ==
    /\ ent.repr = "leaderboards.json"
    /\ LET r == AwardAll(ent.v, uid, DueAchievements(wins, total)) IN
       /\ ent' = Obj("leaderboards.json", r.doc)
       /\ last' = [op |-> "check_and_award_achievements", raised |-> r.raised,
                   user |-> uid, result |-> r.awarded]
    /\ UNCHANGED notEntVars

\* The statistics passed to check_and_award_achievements.
WinCounts == {1, 2, 5}

CompetitionCounts == {5, 10}

CollectionNext ==
    \/ \E uid \in AllTimeUsers, type \in AllTimeTypes, won \in BOOLEAN :
          UpdateAllTimeLeaderboards(uid, type, won)
    \/ \E uid \in AllTimeUsers, wins \in WinCounts, total \in CompetitionCounts :
          CheckAndAwardAchievements(uid, wins, total)

\* The documents at start-up: the default structure (no leaderboard, no
\* achievement) or a file with leaderboards that rank user 1 and with an
\* achievement of user 1.
StoredCollections ==
    {[leaderboards |-> lbs, user_achievements |-> [u \in AllTimeUsers |-> IF u = 1 THEN a ELSE << >>]] :
        lbs \in [AllTimeKeys ->
                   {NoLeaderboard,
                    StoredLeaderboard(<<[user_id |-> 1, rank |-> 1, score |-> 7]>>)}],
        a \in {<< >>, <<"first_win">>}}

InitCollection ==
    /\ RepoInit
    /\ UsersInit
    /\ CompInit
    /\ ent \in {Obj("leaderboards.json", d) : d \in StoredCollections}
    /\ last = [op |-> "none", raised |-> "none", user |-> 0, result |-> << >>]

SpecCollection == InitCollection /\ [][CollectionNext]_vars

\* C31: after update_all_time_leaderboards(user_id, type, won) the stored
\* participation score of the user is one higher than before (1 without an
\* entry), and the stored scores on the all-time-wins leaderboard and on the
\* leaderboard of the competition type are one higher if won and unchanged
\* otherwise.
CE_C31_AllTimeLeaderboards ==
    [][\A uid \in AllTimeUsers, type \in AllTimeTypes, won \in BOOLEAN :
          UpdateAllTimeLeaderboards(uid, type, won) =>
             /\ last'.raised = "none"
             /\ \A key \in AllTimeKeys :
                   ScoreOf(ent'.v.leaderboards[key], uid)
                     = ScoreOf(ent.v.leaderboards[key], uid)
                       + (IF \/ key = "participation"
                             \/ won /\ key \in {"all_time_wins", TypeLeaderboard(type)}
                          THEN 1 ELSE 0)]_vars

\* update_all_time_leaderboards always raises, ValidationError for a user
\* without participation entry and KeyError otherwise, and the stored
\* document never changes.
CollectionNeverSaved ==
    /\ [][ent' = ent]_vars
    /\ [][\A uid \in AllTimeUsers, type \in AllTimeTypes, won \in BOOLEAN :
            UpdateAllTimeLeaderboards(uid, type, won) =>
               last'.raised = IF ScoreOf(ent.v.leaderboards["participation"], uid) = 0
                              THEN "ValidationError"
                              ELSE IF won /\ \E key \in {"all_time_wins", TypeLeaderboard(type)} \cap AllTimeKeys :
                                                ScoreOf(ent.v.leaderboards[key], uid) = 0
                              THEN "ValidationError" ELSE "KeyError"]_vars

\* C32: check_and_award_achievements(user_id, wins, total) stores and returns
\* the achievements due that the user did not have: first_win when wins = 1,
\* the participation milestone when total is one, the wins milestone when
\* wins is one; a stored list holds no achievement twice.
CE_C32_AchievementsAwarded ==
    /\ [][\A uid \in AllTimeUsers, wins \in WinCounts, total \in CompetitionCounts :
            CheckAndAwardAchievements(uid, wins, total) =>
               LET new == SelectSeq(DueAchievements(wins, total),
                             LAMBDA id : id \notin Range(ent.v.user_achievements[uid]))
               IN /\ last'.raised = "none"
                  /\ last'.result = new
                  /\ ent'.v.user_achievements[uid]
                       = ent.v.user_achievements[uid] \o new]_vars
    /\ [](\A uid \in AllTimeUsers :
            \A i, j \in DOMAIN ent.v.user_achievements[uid] :
               ent.v.user_achievements[uid][i] = ent.v.user_achievements[uid][j]
                  => i = j)

\* A call with nothing new to award returns the empty list; a call with
\* something to award raises KeyError and stores nothing.
AwardNeverStored ==
    [][\A uid \in AllTimeUsers, wins \in WinCounts, total \in CompetitionCounts :
          CheckAndAwardAchievements(uid, wins, total) =>
             LET new == SelectSeq(DueAchievements(wins, total),
                           LAMBDA id : id \notin Range(ent.v.user_achievements[uid]))
             IN /\ last'.result = << >>
                /\ last'.raised = IF new = << >> THEN "none" ELSE "KeyError"
                /\ ent' = ent]_vars

-----------------------------------------------------------------------------
\* ===== factory.py: EventFactory, the registry of manager classes ==========

\* Event types: two of the types _register_manager_classes configures and one
\* it does not.
ConfiguredTypes == {"trivia", "race"}

EventTypes == ConfiguredTypes \cup {"bingo"}

\* Classes passed to register_custom_manager: two that extend
\* BaseCompetitionManager with every required method, one that does not
\* extend it.
ManagerClasses == {"CustomA", "CustomB"}

OtherClasses == {"NotAManager"}

\* _register_manager_classes: the configured types get their placeholder
\* class, whatever they had.
RegisterManagerClasses(classes) ==
    [t \in EventTypes |-> IF t \in ConfiguredTypes THEN "Placeholder" ELSE classes[t]]

\* EventFactory.initialize on the factory f.
FactoryInitialize(f) ==
    IF f.initialized THEN f
    ELSE [f EXCEPT !.classes = RegisterManagerClasses(@), !.initialized = TRUE]

\* EventFactory.create_manager(event_type, ...) with the dependencies the bot
\* passes: the class of the instance returned.
CreateManager(type) ==
    /\ ent.repr = "EventFactory"
    /\ LET f == FactoryInitialize(ent.v) IN
       /\ ent' = Obj("EventFactory", f)
       /\ last' = IF f.classes[type] = "none"
                  THEN [op |-> "create_manager", type |-> type,
                        raised |-> "CompetitionError", result |-> "none"]
                  ELSE [op |-> "create_manager", type |-> type,
                        raised |-> "none", result |-> f.classes[type]]
    /\ UNCHANGED notEntVars

\* EventFactory.get_supported_types()
GetSupportedTypes ==
    /\ ent.repr = "EventFactory"
    /\ ent' = Obj("EventFactory", FactoryInitialize(ent.v))
    /\ last' = [op |-> "get_supported_types", type |-> "none",
                raised |-> "none", result |-> "none"]
    /\ UNCHANGED notEntVars

\* EventFactory.register_custom_manager(event_type, manager_class).
\* ent.v.custom is the class the type was last registered with by this call
\* and not unregistered or cleared by reset_factory since.
RegisterCustomManager(type, class) ==
    /\ ent.repr = "EventFactory"
    /\ IF class \in ManagerClasses
       THEN /\ ent' = Obj("EventFactory",
                          [ent.v EXCEPT !.classes[type] = class, !.custom[type] = class])
            /\ last' = [op |-> "register_custom_manager", type |-> type,
                        raised |-> "none", result |-> "none"]
       ELSE /\ ent' = ent
            /\ last' = [op |-> "register_custom_manager", type |-> type,
                        raised |-> "ValidationError", result |-> "none"]
    /\ UNCHANGED notEntVars

\* EventFactory.unregister_manager(event_type)
UnregisterManager(type) ==
    /\ ent.repr = "EventFactory"
    /\ ent' = Obj("EventFactory",
                  [ent.v EXCEPT !.classes[type] = "none", !.custom[type] = "none"])
    /\ last' = [op |-> "unregister_manager", type |-> type, raised |-> "none",
                result |-> IF ent.v.classes[type] # "none" THEN "True" ELSE "False"]
    /\ UNCHANGED notEntVars

\* EventFactory.reset_factory()
ResetFactory ==
    /\ ent.repr = "EventFactory"
    /\ ent' = Obj("EventFactory",
                  [classes |-> [t \in EventTypes |-> "none"],
                   custom |-> [t \in EventTypes |-> "none"],
                   initialized |-> FALSE])
    /\ last' = [op |-> "reset_factory", type |-> "none", raised |-> "none",
                result |-> "none"]
    /\ UNCHANGED notEntVars

FactoryNext ==
    \/ \E type \in EventTypes : CreateManager(type)
    \/ GetSupportedTypes
    \/ \E type \in EventTypes, class \in ManagerClasses \cup OtherClasses :
          RegisterCustomManager(type, class)
    \/ \E type \in EventTypes : UnregisterManager(type)
    \/ ResetFactory

\* The factory once events.factory is imported: the module calls
\* EventFactory.initialize().
InitFactory ==
    /\ RepoInit
    /\ UsersInit
    /\ CompInit
    /\ ent = Obj("EventFactory",
                 FactoryInitialize([classes |-> [t \in EventTypes |-> "none"],
                                    custom |-> [t \in EventTypes |-> "none"],
                                    initialized |-> FALSE]))
    /\ last = [op |-> "none", type |-> "none", raised |-> "none", result |-> "none"]

SpecFactory == InitFactory /\ [][FactoryNext]_vars

\* C33: after register_custom_manager(type, cls) succeeded, every
\* create_manager(type, ...) returns an instance of cls until the type is
\* unregistered or registered again, also when the registration came right
\* after reset_factory.
CE_C33_FactorySubstitution ==
    [](last.op = "create_manager" /\ ent.v.custom[last.type] # "none"
          => last.raised = "none" /\ last.result = ent.v.custom[last.type])

\* A registration made while the factory is initialized stays in the registry
\* until the type is unregistered or registered again or the factory is
\* reset; a type _register_manager_classes does not configure always keeps
\* it; create_manager returns an instance of the class in the registry.
SubstitutionWhileInitialized ==
    /\ [][\A t \in EventTypes :
            (/\ ent.v.initialized
             /\ ent'.v.custom[t] # "none"
             /\ ent.v.custom[t] = ent'.v.custom[t] => ent.v.classes[t] = ent.v.custom[t])
            => ent'.v.classes[t] = ent'.v.custom[t]]_vars
    /\ [](\A t \in EventTypes \ ConfiguredTypes :
            ent.v.custom[t] # "none" => ent.v.classes[t] = ent.v.custom[t])
    /\ [](last.op = "create_manager" /\ last.raised = "none"
            => last.result = ent.v.classes[last.type])

-----------------------------------------------------------------------------
\* ===== rate_limiter.py: RateLimiter.wait_for_tokens ========================

\* The clock of SpecWait counts sleeps of wait_for_tokens (0.1 s each); the
\* buckets refill one token in that time. Capacities, tokens asked for and
\* timeouts (in the same unit) of the calls looked at.
WaitCapacities == {1, 2}

WaitTokens == {1, 2, 3}

WaitTimeouts == {0, 1, 2}

\* "if timeout and ...": the truth value of the timeout argument.
Truthy(timeout) == timeout # 0

\* wait_for_tokens(key, tokens, timeout) is called: start_time = time.time().
WaitForTokens ==
    /\ last.pc = "idle"
    /\ last' = [last EXCEPT !.pc = "acquire", !.start = clock]
    /\ UNCHANGED <<ent, clock, notLimiterVars>>

\* "if await self.acquire(key, tokens): return True"
WaitAcquire ==
    /\ last.pc = "acquire"
    /\ LET r == Consume(ent.v, last.tokens, clock) IN
       /\ ent' = Obj("RateLimitBucket", r.bucket)
       /\ last' = IF r.result
                  THEN [last EXCEPT !.pc = "done", !.result = TRUE,
                                    !.taken = @ + last.tokens]
                  ELSE [last EXCEPT !.pc = "timeout"]
    /\ UNCHANGED <<clock, notLimiterVars>>

\* "if timeout and (time.time() - start_time) >= timeout: return False"
WaitCheckTimeout ==
    /\ last.pc = "timeout"
    /\ last' = IF Truthy(last.timeout) /\ clock - last.start >= last.timeout
               THEN [last EXCEPT !.pc = "done", !.result = FALSE]
               ELSE [last EXCEPT !.pc = "sleep"]
    /\ UNCHANGED <<ent, clock, notLimiterVars>>

\* wait_time = bucket.time_until_available(tokens), then
\* asyncio.sleep(min(wait_time, 0.1)). Instants after MaxWaitClock are not
\* told apart.
WaitSleep ==
    /\ last.pc = "sleep"
    /\ ent' = Obj("RateLimitBucket",
                  TimeUntilAvailable(ent.v, last.tokens, clock).bucket)
    /\ clock' = IF clock < MaxWaitClock THEN clock + 1 ELSE clock
    /\ last' = [last EXCEPT !.pc = "acquire"]
    /\ UNCHANGED notLimiterVars

WaitNext == WaitForTokens \/ WaitAcquire \/ WaitCheckTimeout \/ WaitSleep

\* A bucket with some of its tokens left and a call about to be made.
InitWait ==
    /\ RepoInit
    /\ UsersInit
    /\ CompInit
    /\ \E c \in WaitCapacities, left \in 0..2 :
          /\ left <= c
          /\ ent = Obj("RateLimitBucket", [RateLimitBucket(c, 1, 0) EXCEPT !.tokens = left])
    /\ last \in [pc : {"idle"}, tokens : WaitTokens, timeout : WaitTimeouts,
                 start : {0}, result : {FALSE}, taken : {0}]

SpecWait == InitWait /\ [][WaitNext]_vars

\* The event loop runs the coroutine and its sleeps end.
FairSpecWait == SpecWait /\ WF_vars(WaitNext)

\* C34: wait_for_tokens(key, n, timeout) with a timeout, 0 included, returns:
\* True after consuming n tokens, or False once the timeout has elapsed,
\* having consumed none, also when n exceeds the capacity.
CE_C34_WaitTerminates ==
    /\ <>(last.pc = "done")
    /\ [](last.pc = "done" =>
            IF last.result THEN last.taken = last.tokens
            ELSE last.taken = 0 /\ clock - last.start >= last.timeout)

\* With a timeout above 0 the call returns, True having consumed n tokens or
\* False after the timeout having consumed none; with timeout 0 it returns
\* True when n is within the capacity, and never returns False.
WaitWithPositiveTimeout ==
    /\ <>(last.pc = "done" \/ (last.timeout = 0 /\ last.tokens > ent.v.capacity))
    /\ [](last.pc = "done" =>
            IF last.result THEN last.taken = last.tokens
            ELSE /\ last.taken = 0
                 /\ last.timeout > 0
                 /\ clock - last.start >= last.timeout)
    /\ [](last.timeout = 0 /\ last.tokens > ent.v.capacity => last.pc # "done")

-----------------------------------------------------------------------------
\* ===== rate_limiter.py: APIRateLimiter.adaptive_delay ======================

\* The keys APIRateLimiter configures, each with 1 token per second.
ApiKeys == {"wise_old_man", "discord_api"}

\* Refill rates are fractions num/den of a token per second.
Rate(num, den) == [num |-> num, den |-> den]

RateAbove(r, s) == r.num * s.den > s.num * r.den

\* The rate under which adaptive_delay stops reducing, and the factor.
RateFloor == Rate(1, 10)

RateFactor == Rate(4, 5)

\* "if bucket.refill_rate > 0.1: bucket.refill_rate *= 0.8"
ReduceRate(r) ==
    IF RateAbove(r, RateFloor)
    THEN Rate(r.num * RateFactor.num, r.den * RateFactor.den)
    ELSE r

\* adaptive_delay(key, success)
AdaptiveDelay(key, success) ==
    /\ ent.repr = "APIRateLimiter"
    /\ ent' = IF success THEN ent
              ELSE Obj("APIRateLimiter", [ent.v EXCEPT ![key] = ReduceRate(@)])
    /\ last' = [op |-> "adaptive_delay", key |-> key, success |-> success]
    /\ UNCHANGED notEntVars

AdaptiveNext == \E key \in ApiKeys, success \in BOOLEAN : AdaptiveDelay(key, success)

\* APIRateLimiter(): both buckets refill at 1.0 per second.
InitAdaptive ==
    /\ RepoInit
    /\ UsersInit
    /\ CompInit
    /\ ent = Obj("APIRateLimiter", [key \in ApiKeys |-> Rate(1, 1)])
    /\ last = [op |-> "none", key |-> "none", success |-> TRUE]

SpecAdaptive == InitAdaptive /\ [][AdaptiveNext]_vars

\* C35: each adaptive_delay(key, success=False) multiplies the refill rate of
\* the bucket by 0.8 while the rate is at or above the floor, and the rate
\* never drops below 0.1 tokens per second.
CE_C35_DegradeFloor ==
    /\ [](\A key \in ApiKeys : ~RateAbove(RateFloor, ent.v[key]))
    /\ [][\A key \in ApiKeys :
            (AdaptiveDelay(key, FALSE) /\ ~RateAbove(RateFloor, ent.v[key]))
            => ent'.v[key] = Rate(4 * ent.v[key].num, 5 * ent.v[key].den)]_vars

\* A failed call multiplies the rate by 0.8 exactly while it is above 0.1, a
\* successful call leaves it, and the rate stays above 0.08.
ReducedWhileAboveFloor ==
    /\ [][\A key \in ApiKeys :
            AdaptiveDelay(key, FALSE) =>
               IF RateAbove(ent.v[key], RateFloor)
               THEN ent'.v[key] = Rate(4 * ent.v[key].num, 5 * ent.v[key].den)
               ELSE ent'.v[key] = ent.v[key]]_vars
    /\ [][\A key \in ApiKeys : AdaptiveDelay(key, TRUE) => ent' = ent]_vars
    /\ [](\A key \in ApiKeys : RateAbove(ent.v[key], Rate(8, 100)))

-----------------------------------------------------------------------------
\* ===== user.py: User.get_public_profile ====================================

\* The users looked at: the entities of the model, each with a join date.
ProfileUsers ==
    {u @@ ("join_date" :> j) :
        u \in {e \in UserEntities :
                 e.preferences.notifications /\ e.wise_old_man_id = None},
        j \in {"2024-01-01", "2025-06-30"}}

\* round(x, 1) of a fraction, in tenths.
RoundTenths(r) == (20 * r.num + r.den) \div (2 * r.den)

\* A get_public_profile whose private profile still names the linked account.
GetPublicProfile_WithUsername(u) ==
    IF u.preferences.privacy_level = Enum("PrivacyLevel", "private")
    THEN [discord_id |-> u.discord_id, display_name |-> u.display_name,
          osrs_username |-> u.osrs_username, privacy_level |-> "private"]
    ELSE [discord_id |-> u.discord_id, display_name |-> u.display_name,
          osrs_username |-> u.osrs_username,
          total_competitions |-> u.total_competitions, wins |-> u.wins,
          win_rate |-> RoundTenths(GetWinRate(u)),
          achievements |-> u.achievements, join_date |-> u.join_date,
          privacy_level |-> u.preferences.privacy_level.value]

\* user.get_public_profile(): the dictionary returned.
GetPublicProfile(u) ==
    IF u.preferences.privacy_level = Enum("PrivacyLevel", "private")
    THEN [discord_id |-> u.discord_id, display_name |-> u.display_name,
          privacy_level |-> "private"]
    ELSE [discord_id |-> u.discord_id, display_name |-> u.display_name,
          osrs_username |-> u.osrs_username,
          total_competitions |-> u.total_competitions, wins |-> u.wins,
          win_rate |-> RoundTenths(GetWinRate(u)),
          achievements |-> u.achievements, join_date |-> u.join_date,
          privacy_level |-> u.preferences.privacy_level.value]

\* get_public_profile() is called on both users held.
GetPublicProfiles ==
    /\ ent.repr = "Users"
    /\ last.op = "none"
    /\ last' = [op |-> "get_public_profile",
                a |-> GetPublicProfile(ent.v[1]), b |-> GetPublicProfile(ent.v[2])]
    /\ UNCHANGED <<ent, notEntVars>>

\* Two users are held by a caller.
InitProfile ==
    /\ RepoInit
    /\ UsersInit
    /\ CompInit
    /\ ent \in {Obj("Users", <<a, b>>) : a, b \in ProfileUsers}
    /\ last = [op |-> "none", a |-> [discord_id |-> 0], b |-> [discord_id |-> 0]]

SpecProfile == InitProfile /\ [][GetPublicProfiles]_vars

\* Both users are private and have the same discord id and display name.
SamePrivateIdentity ==
    /\ ent.v[1].discord_id = ent.v[2].discord_id
    /\ ent.v[1].display_name = ent.v[2].display_name
    /\ \A i \in {1, 2} :
          ent.v[i].preferences.privacy_level = Enum("PrivacyLevel", "private")

\* C36: for two private users with the same discord id and display name
\* get_public_profile returns the same dictionary of three fields (id, display
\* name, privacy level "private"), whatever their linked username, totals,
\* wins, achievements and join date are.
Thm_C36_PrivateProfile ==
    (last.op = "get_public_profile" /\ SamePrivateIdentity) =>
        /\ last.a = last.b
        /\ DOMAIN last.a = {"discord_id", "display_name", "privacy_level"}
        /\ last.a = [discord_id |-> ent.v[1].discord_id,
                     display_name |-> ent.v[1].display_name,
                     privacy_level |-> "private"]

\* Two private users with the same identity that differ in everything else
\* have been asked for their profile.
Wit_C36_DifferentPrivateUsers ==
    /\ last.op = "get_public_profile"
    /\ SamePrivateIdentity
    /\ ent.v[1].osrs_username # ent.v[2].osrs_username
    /\ ent.v[1].total_competitions # ent.v[2].total_competitions
    /\ ent.v[1].wins # ent.v[2].wins
    /\ ent.v[1].achievements # ent.v[2].achievements
    /\ ent.v[1].join_date # ent.v[2].join_date

\* A user that is not private gets the nine fields.
PublicProfileShown ==
    (last.op = "get_public_profile"
       /\ ent.v[1].preferences.privacy_level # Enum("PrivacyLevel", "private"))
    => /\ Cardinality(DOMAIN last.a) = 9
       /\ last.a.wins = ent.v[1].wins

-----------------------------------------------------------------------------
\* ===== main.py: BotRunner.shutdown and the event loop of asyncio.run =======

\* The tasks of the process: "main" runs main() under asyncio.run, "handler"
\* is the task the signal handler creates for _handle_shutdown, "monitor" is a
\* background loop of the bot, "command" an interaction being handled.
LoopTasks == {"main", "handler", "monitor", "command"}

\* A task is on the loop and has not finished.
Pending(tasks, t) == tasks[t] \in {"running", "cancelling"}

\* task.cancel() on each task of a set: a pending task is given
\* CancelledError at its next step.
CancelTasks(tasks, ts) ==
    [t \in LoopTasks |-> IF t \in ts /\ Pending(tasks, t) THEN "cancelling" ELSE tasks[t]]

\* The main task has finished: run_until_complete(main) ends and asyncio.run
\* cancels every task left (_cancel_all_tasks) before it closes the loop.
MainFinished(tasks, how) ==
    CancelTasks([tasks EXCEPT !["main"] = how], LoopTasks \ {"main"})

\* SIGINT or SIGTERM: the handler creates the task of _handle_shutdown, which
\* calls shutdown().
HandleShutdown ==
    /\ ent.repr = "Loop"
    /\ last.pc = "none"
    /\ ent.v["main"] = "running"
    /\ ent' = Obj("Loop", [ent.v EXCEPT !["handler"] = "running"])
    /\ last' = [last EXCEPT !.pc = "close", !.runner = "handler"]
    /\ UNCHANGED notEntVars

\* KeyboardInterrupt reaches main(): it awaits runner.shutdown() itself.
MainShutdown ==
    /\ ent.repr = "Loop"
    /\ last.pc = "none"
    /\ ent.v["main"] = "running"
    /\ last' = [last EXCEPT !.pc = "close", !.runner = "main"]
    /\ UNCHANGED <<ent, notEntVars>>

\* Inside "await self.bot.close()": OSRSBot.close cancels the background
\* loops, then the connection is closed or the close fails with an Exception.
BotClose(raises) ==
    /\ last.pc = "close"
    /\ ent.v[last.runner] = "running"
    /\ ent' = Obj("Loop", CancelTasks(ent.v, {"monitor"}))
    /\ last' = [last EXCEPT !.pc = "closing", !.closed = ~raises,
                            !.close_raised = raises]
    /\ UNCHANGED notEntVars

\* close() has returned, or its Exception is logged; the tasks other than the
\* current one are cancelled and gather is awaited.
ShutdownCancel ==
    /\ last.pc = "closing"
    /\ ent.v[last.runner] = "running"
    /\ LET others == {t \in LoopTasks \ {last.runner} : Pending(ent.v, t)} IN
       /\ ent' = Obj("Loop", CancelTasks(ent.v, others))
       /\ last' = [last EXCEPT !.pc = IF others = {} THEN "returned" ELSE "gather",
                               !.awaited = others]
    /\ UNCHANGED notEntVars

\* gather(*tasks, return_exceptions=True) is done: shutdown returns.
ShutdownReturns ==
    /\ last.pc = "gather"
    /\ ent.v[last.runner] = "running"
    /\ \A t \in last.awaited : ~Pending(ent.v, t)
    /\ last' = [last EXCEPT !.pc = "returned"]
    /\ UNCHANGED <<ent, notEntVars>>

\* The task running shutdown was cancelled: CancelledError is raised at the
\* await it is at and leaves shutdown (it is no Exception).
ShutdownCancelled ==
    /\ last.pc \in {"close", "closing", "gather"}
    /\ last.runner = "handler"
    /\ ent.v["handler"] = "cancelling"
    /\ ent' = Obj("Loop", [ent.v EXCEPT !["handler"] = "cancelled"])
    /\ last' = [last EXCEPT !.pc = "raised"]
    /\ UNCHANGED notEntVars

\* bot.start() returns in the main task once the bot is closed, and main()
\* returns.
StartReturns ==
    /\ ent.repr = "Loop"
    /\ last.closed
    /\ last.runner = "handler"
    /\ ent.v["main"] = "running"
    /\ ent' = Obj("Loop", MainFinished(ent.v, "done"))
    /\ UNCHANGED <<last, notEntVars>>

\* A cancelled task other than the one running shutdown ends with
\* CancelledError; so does main(), whose handlers catch Exception only.
TaskCancelled(t) ==
    /\ ent.repr = "Loop"
    /\ ent.v[t] = "cancelling"
    /\ t # last.runner
    /\ ent' = Obj("Loop", IF t = "main" THEN MainFinished(ent.v, "cancelled")
                          ELSE [ent.v EXCEPT ![t] = "cancelled"])
    /\ UNCHANGED <<last, notEntVars>>

\* The interaction being handled ends by itself.
CommandEnds ==
    /\ ent.repr = "Loop"
    /\ ent.v["command"] = "running"
    /\ ent' = Obj("Loop", [ent.v EXCEPT !["command"] = "done"])
    /\ UNCHANGED <<last, notEntVars>>

\* The main task that ran shutdown returns from main().
MainReturns ==
    /\ last.pc = "returned"
    /\ last.runner = "main"
    /\ ent.v["main"] = "running"
    /\ ent' = Obj("Loop", MainFinished(ent.v, "done"))
    /\ UNCHANGED <<last, notEntVars>>

ShutdownNext ==
    \/ HandleShutdown
    \/ MainShutdown
    \/ \E raises \in BOOLEAN : BotClose(raises)
    \/ ShutdownCancel
    \/ ShutdownReturns
    \/ ShutdownCancelled
    \/ StartReturns
    \/ \E t \in LoopTasks : TaskCancelled(t)
    \/ CommandEnds
    \/ MainReturns

\* The bot is running: main() awaits bot.start(); the background loop and a
\* command may be on the loop.
InitShutdown ==
    /\ RepoInit
    /\ UsersInit
    /\ CompInit
    /\ \E m, c \in {"none", "running"} :
          ent = Obj("Loop", [t \in LoopTasks |->
                               CASE t = "main" -> "running"
                                 [] t = "handler" -> "none"
                                 [] t = "monitor" -> m
                                 [] t = "command" -> c])
    /\ last = [pc |-> "none", runner |-> "none", closed |-> FALSE,
               close_raised |-> FALSE, awaited |-> {}]

SpecShutdown == InitShutdown /\ [][ShutdownNext]_vars

\* C37: shutdown attempts close first and, whether it succeeds or raises,
\* cancels and awaits every other running task; it returns with no other task
\* running, and no exception has propagated from it.
CE_C37_Shutdown ==
    /\ last.pc # "raised"
    /\ last.pc = "returned" =>
          \A t \in LoopTasks \ {last.runner} : ~Pending(ent.v, t)

\* Run by the main task, shutdown returns with every other task finished and
\* nothing propagates; run by the task of the signal handler it never
\* returns.
ShutdownByMainTask ==
    /\ last.runner = "main" => last.pc # "raised"
    /\ last.pc = "returned" =>
          /\ last.runner = "main"
          /\ \A t \in LoopTasks \ {last.runner} : ~Pending(ent.v, t)

-----------------------------------------------------------------------------
\* ===== base_manager.py, competition_repository.py: status and registrations

\* The coroutines that run next to the monitor in SpecRegistrations, and the
\* calls they make on competition 1: the repository's add_participant and
\* remove_participant, and the manager's cancel_competition.
RegistrationSlots == {1, 2}

RegistrationCallArgs ==
    [op : {"add_participant"}, cid : {1}, uid : {2}, arg : {"none"}]
    \cup [op : {"remove_participant"}, cid : {1}, uid : {1}, arg : {"none"}]
    \cup [op : {"cancel_competition"}, cid : {1}, uid : {0}, arg : {"none"}]

RegistrationCall(t, a) ==
    /\ ccalls < MaxRegistrationCalls
    /\ ct[t].pc \in {"idle", "done"}
    /\ ct' = [ct EXCEPT ![t] = NewCompCall(a)]
    /\ ccalls' = ccalls + 1
    /\ UNCHANGED <<comps, now, mon, nextId, notCompVars>>

RegistrationNext ==
    \/ \E t \in RegistrationSlots, a \in RegistrationCallArgs : RegistrationCall(t, a)
    \/ \E t \in RegistrationSlots : AddParticipantGet(t)
    \/ \E t \in RegistrationSlots : RemoveParticipantGet(t)
    \/ \E t \in RegistrationSlots : UpdateCompetitionLoad(t)
    \/ \E t \in RegistrationSlots : CompSaveData(t)
    \/ \E t \in RegistrationSlots : CancelCommandFind(t)
    \/ \E t \in RegistrationSlots : CancelCompetitionGet(t)
    \/ \E t \in RegistrationSlots : CancelCompetitionWrite(t)
    \/ Tick
    \/ MonitorList
    \/ StartCompetitionGet
    \/ StartCompetitionWrite
    \/ EndCompetitionGet
    \/ EndCompetitionRank

\* The bot is started over a competitions document in which member 1 is
\* registered in competition 1.
InitRegistrations ==
    /\ RepoInit
    /\ users = RegisteredUsers
    /\ ut = [s \in Slots |-> IdleCall]
    /\ calls = 0
    /\ serial = TRUE
    /\ hist = [adds |-> [id \in UserIds |-> 0], created |-> {}]
    /\ now = 0
    /\ comps \in LeaveDocuments
    /\ mon = IdleMonitor
    /\ ct = [s \in RegistrationSlots |-> IdleCompCall]
    /\ ccalls = 0
    /\ nextId = 1
    /\ EntInit

SpecRegistrations == InitRegistrations /\ [][RegistrationNext]_vars

\* The persisted participants of a competition, as a set.
PersistedParticipants(doc, id) ==
    IF HasComp(doc, id) THEN Range(GetComp(doc, id).participants) ELSE {}

StaleTransitionFails ==
    /\ [][\A t \in RegistrationSlots :
            (ct[t].pc = "cn_write" /\ ct[t].obj.v.participants # << >>
               /\ ct'[t].pc = "done")
            => ct'[t].result \in {"DatabaseError", "ValidationError"} /\ comps' = comps]_vars
    /\ [][(mon.pc = "start_write" /\ mon.obj.v.participants # << >>
             /\ mon'.pc # "start_write")
            => mon'.result \in {"DatabaseError", "ValidationError"} /\ comps' = comps]_vars
    /\ [](\A t \in RegistrationSlots :
            ct[t].pc = "done" /\ ct[t].result = "ok" => PersistedParticipants(comps, 1) = {})

-----------------------------------------------------------------------------
\* ===== participant_commands.py: commands on a finished competition ========

\* The coroutines of SpecResults and the commands members 1 and 2 give on
\* competition 1.
ResultSlots == {1, 2}

ResultCallArgs ==
    [op : {"join_competition", "leave_competition"}, cid : {1}, uid : {1, 2},
     arg : {"none"}]

ResultCall(t, a) ==
    /\ ccalls < MaxResultCalls
    /\ ct[t].pc \in {"idle", "done"}
    /\ ct' = [ct EXCEPT ![t] = NewCompCall(a)]
    /\ ccalls' = ccalls + 1
    /\ UNCHANGED <<comps, now, mon, nextId, notCompVars>>

ResultNext ==
    \/ \E t \in ResultSlots, a \in ResultCallArgs : ResultCall(t, a)
    \/ \E t \in ResultSlots : JoinCompetitionFind(t)
    \/ \E t \in ResultSlots : RegisterParticipant(t)
    \/ \E t \in ResultSlots : LeaveCompetitionFind(t)
    \/ \E t \in ResultSlots : RemoveParticipantGet(t)
    \/ \E t \in ResultSlots : UpdateCompetitionLoad(t)
    \/ \E t \in ResultSlots : CompSaveData(t)

\* The competitions document the bot is started over: competition 1, either
\* still pending without participants, or completed with its participants and
\* winners.
ResultDocuments ==
    {<<NewCompetition(1, ManagerTypes[1], 1, 2)>>}
    \cup {<<[NewCompetition(1, ManagerTypes[1], 1, 2) EXCEPT
               !.status = "completed",
               !.start_time = 0,
               !.participants = r[1],
               !.winners = r[2]]>> :
             r \in {<< <<1>>, << >> >>, << <<1>>, <<1>> >>,
                    << <<1, 2>>, <<1>> >>, << <<1, 2>>, <<1, 2>> >>}}

InitResults ==
    /\ RepoInit
    /\ users = RegisteredUsers
    /\ ut = [s \in Slots |-> IdleCall]
    /\ calls = 0
    /\ serial = TRUE
    /\ hist = [adds |-> [id \in UserIds |-> 0], created |-> {}]
    /\ now = 0
    /\ comps \in ResultDocuments
    /\ mon = IdleMonitor
    /\ ct = [s \in ResultSlots |-> IdleCompCall]
    /\ ccalls = 0
    /\ nextId = 1
    /\ EntInit

SpecResults == InitResults /\ [][ResultNext]_vars

ResultsChangeOnlyByLastLeave ==
    [][(GetComp(comps, 1).status = "completed" /\ comps' # comps) =>
          \E t \in ResultSlots :
             /\ ct[t].op = "leave_competition"
             /\ ct[t].pc = "save"
             /\ ct'[t].result = "ok"
             /\ GetComp(comps, 1).participants = <<ct[t].uid>>
             /\ comps' = <<[GetComp(comps, 1) EXCEPT !.participants = << >>,
                                                      !.winners = << >>]>>]_vars

-----------------------------------------------------------------------------
\* ===== rate_limiter.py: a bucket of the APIRateLimiter =====================

\* The Retry-After header of a rate limit response: absent, or a number of
\* seconds.
RetryAfterHeaders ==
    {[present |-> FALSE, seconds |-> 0]}
    \cup {[present |-> TRUE, seconds |-> s] : s \in {1, 2}}

\* bucket.get_remaining_tokens() at time t
GetRemainingTokens(b, t) ==
    LET r == Refill(b, t) IN [result |-> r.tokens, bucket |-> r]

\* The body of reset_bucket for an existing bucket, at time t.
ResetBucket(b, t) == [b EXCEPT !.tokens = b.capacity, !.last_refill = t]

\* The body of handle_rate_limit_response at time t: with a Retry-After header
\* the bucket is drained and last_refill is put retry_seconds ahead.
HandleRateLimitResponse(b, h, t) ==
    IF h.present
    THEN [b EXCEPT !.tokens = 0, !.last_refill = t + h.seconds]
    ELSE b

\* The record of the calls made on the bucket after one more, op.
RetryLast(op) ==
    [op |-> op, raised |-> "none", n |-> last.n + 1,
     retried |-> last.retried \/ op = "handle_rate_limit_response"]

\* bucket.consume(n)
RetryConsume(n) ==
    /\ ent.repr = "RateLimitBucket"
    /\ last.n < MaxRetryCalls
    /\ ent' = Obj("RateLimitBucket", Consume(ent.v, n, clock).bucket)
    /\ last' = RetryLast("consume")
    /\ UNCHANGED <<clock, notLimiterVars>>

\* bucket.time_until_available(n)
RetryTimeUntilAvailable(n) ==
    /\ ent.repr = "RateLimitBucket"
    /\ last.n < MaxRetryCalls
    /\ ent' = Obj("RateLimitBucket", TimeUntilAvailable(ent.v, n, clock).bucket)
    /\ last' = RetryLast("time_until_available")
    /\ UNCHANGED <<clock, notLimiterVars>>

\* bucket.get_remaining_tokens()
RetryGetRemainingTokens ==
    /\ ent.repr = "RateLimitBucket"
    /\ last.n < MaxRetryCalls
    /\ ent' = Obj("RateLimitBucket", GetRemainingTokens(ent.v, clock).bucket)
    /\ last' = RetryLast("get_remaining_tokens")
    /\ UNCHANGED <<clock, notLimiterVars>>

\* limiter.reset_bucket(key)
RetryResetBucket ==
    /\ ent.repr = "RateLimitBucket"
    /\ last.n < MaxRetryCalls
    /\ ent' = Obj("RateLimitBucket", ResetBucket(ent.v, clock))
    /\ last' = RetryLast("reset_bucket")
    /\ UNCHANGED <<clock, notLimiterVars>>

\* limiter.handle_rate_limit_response(key, headers)
RetryHandleRateLimitResponse(h) ==
    /\ ent.repr = "RateLimitBucket"
    /\ last.n < MaxRetryCalls
    /\ ent' = Obj("RateLimitBucket", HandleRateLimitResponse(ent.v, h, clock))
    /\ last' = RetryLast("handle_rate_limit_response")
    /\ UNCHANGED <<clock, notLimiterVars>>

\* One second passes.
RetryTick ==
    /\ clock < MaxRetryTime
    /\ clock' = clock + 1
    /\ UNCHANGED <<ent, last, notLimiterVars>>

RetryNext ==
    \/ RetryTick
    \/ \E n \in ConsumeArgs : RetryConsume(n)
    \/ \E n \in ConsumeArgs : RetryTimeUntilAvailable(n)
    \/ RetryGetRemainingTokens
    \/ RetryResetBucket
    \/ \E h \in RetryAfterHeaders : RetryHandleRateLimitResponse(h)

InitRetry ==
    /\ RepoInit
    /\ UsersInit
    /\ CompInit
    /\ ent \in {Obj("RateLimitBucket", RateLimitBucket(c, r, 0)) :
                 c \in Capacities, r \in RefillRates}
    /\ last = [op |-> "none", raised |-> "none", n |-> 0, retried |-> FALSE]

SpecRetry == InitRetry /\ [][RetryNext]_vars

\* C40: in every state of a bucket reached by consume, time_until_available,
\* get_remaining_tokens, reset_bucket and handle_rate_limit_response calls at
\* non-decreasing times, 0 <= tokens <= capacity.
CE_C40_TokenBounds ==
    /\ 0 <= ent.v.tokens
    /\ ent.v.tokens <= ent.v.capacity

\* What does hold: tokens never exceed the capacity; they are never negative
\* before the first Retry-After response, nor while last_refill is not ahead
\* of the clock; and a negative count is never below what the seconds still to
\* wait would refill.
TokensWithinCapacity ==
    /\ ent.v.tokens <= ent.v.capacity
    /\ ~last.retried => ent.v.tokens >= 0 /\ ent.v.last_refill <= clock
    /\ ent.v.tokens < 0 => last.retried
    /\ ent.v.tokens >= 0 - 2 * ent.v.refill_rate

====
